---------------------------- MODULE Spec2Model ----------------------------
(***************************************************************************)
(* A model of the geospatial core of the trail-map viewer (src/src/util.ts *)
(* and its callers): the tile coordinate frame, the packed tile id codec,  *)
(* line rasterisation, tile containment and joining, bounding boxes and    *)
(* the viewport.                                                           *)
(*                                                                         *)
(* Numbers.  JavaScript numbers are modelled as exact rationals <<n, d>>   *)
(* (d > 0, lowest terms).  The bitwise operators of the codec work on      *)
(* 32-bit signed integers, as in JavaScript; they are modelled on integers *)
(* in -2^31 .. 2^31-1 by shifting and masking one bit at a time.           *)
(*                                                                         *)
(* Each component has its own specification (SpecCodec, SpecCoord, ...).   *)
(* A component's frame is one record variable; the frames of the other     *)
(* components stay idle in a specification that does not use them.         *)
(***************************************************************************)
EXTENDS Integers, Sequences, FiniteSets, TLC

VARIABLES
  codec,   \* frame of an encodeTile / decodeTile round trip
  coord,   \* frame of a TileCoordinate construction followed by atZoom
  line,    \* frame of getLineCrossedTiles (both argument orders)
  tiles,   \* frame of tileContains / joinTiles / tileContaining
  route,   \* frame of tileContainingRoute
  boxes,   \* frame of boundBoxOverlap
  view,    \* the Viewport object: x0, y0, x1, y1 and the last mutator run
  cover,   \* frame of the dataset divider and of loadFeaturesDB's coveredTiles
  fset,    \* the FeatureEntrySet object and the last add call made on it
  near,    \* frame of closestFeature and of addPoint on an empty Path
  onTrail, \* frame of Path.routeOnTrail
  intersect, \* frame of Path.findTrailIntersections
  path,    \* the Path object and the addPoint call that follows trails from its last point
  edit,    \* a Path under addPoint and popPoint calls
  app,     \* the timers of MapApp: wheel, loadFeatures, runNewFeatures
  inView,  \* this.features of MapApp under featuresInView calls
  buffer   \* a TileSetBuffer under loadNew calls and image events

vars == <<codec, coord, line, tiles, route, boxes, view, cover, fset, near, onTrail, intersect, path, edit, app, inView, buffer>>

(***************************************************************************)
(* Program constants.                                                      *)
(***************************************************************************)
MAX_ZOOM == 16
MAX_ZOOM_DATA_SPLIT == 9
MAX_ZOOM_ENCODE == 15
ROUTE_FINDING_DEPTH == 8
SCROLL_LOAD_DELAY == 350
FEATURE_LOAD_DELAY == 350

(***************************************************************************)
(* Bounds of the model.                                                    *)
(***************************************************************************)
\* zooms above MAX_ZOOM_ENCODE / MAX_ZOOM that callers are let to pass
MaxOverZoom == 2
\* tile coordinates sampled this far from each end of the range 0 .. 2^z - 1
EdgeSamples == 1
\* end points of a rasterised segment: x in 0 .. MaxHalfX halves, y in 0 .. MaxHalfY
MaxHalfX == 5
MaxHalfY == 7
\* cells after which a rasterisation that has not returned is no longer followed
MaxCells == 12
\* zoom at which the end points of a rasterised segment are given
LineZoom == 4
\* containment is asked of the tiles of zoom 0 .. MaxTileZoom
MaxTileZoom == 2
\* lists of up to MaxTiles tiles of zoom 0 .. MaxJoinZoom are joined
MaxJoinZoom == 1
MaxTiles == 2
\* routes of up to MaxRouteLen waypoints at 1 .. MaxRouteHalf half tiles of zoom 15
MaxRouteLen == 3
MaxRouteHalf == 3
\* bounding box corners have coordinates in 0 .. MaxBoxCoord
MaxBoxCoord == 2
\* the viewport is followed through MaxViewOps mutator calls, on a canvas of up
\* to MaxPixels by MaxPixels
MaxViewOps == 3
MaxPixels == 2
\* viewports whose corners lie at -1 .. MaxCoverHalf halves of a zoom-9 tile are
\* covered, and tiles with x, y in 0 .. MaxCoverCell are looked for
MaxCoverHalf == 3
MaxCoverCell == 2
\* a FeatureEntrySet is followed through MaxAdds add calls, bulk calls bringing
\* up to MaxBulk features
MaxAdds == 2
MaxBulk == 2
\* up to MaxVisible visible features, and clicks at 0 .. MaxNearCoord on each axis
MaxVisible == 2
MaxNearCoord == 4

\* routeOnTrail is followed for MaxPush pushes of its loop, on trails that reach
\* to MaxTrailCoord
MaxPush == 4
MaxTrailCoord == 6

\* findTrailIntersections runs on up to MaxJunction visible features
MaxJunction == 3

\* routes are searched along chains of up to MaxChain trails
MaxChain == 10
\* addPoint and popPoint calls made on one Path
MaxEdits == 3
\* wheel and mouse events of one session, and dataset files loading at a time
MaxEvents == 3
MaxLoading == 1
\* featuresInView calls of one session, on viewports whose corners are up to
\* MaxViewHalf half tiles of zoom 15 from the centre of the world
MaxCalls == 2
MaxViewHalf == 1
\* loadNew calls on one TileSetBuffer
MaxLoads == 6
\* onload and onerror events of the images of one TileSetBuffer
MaxImages == 2

(***************************************************************************)
(* Exact rational arithmetic (the model of JavaScript's numbers).          *)
(***************************************************************************)
Abs(a) == IF a < 0 THEN -a ELSE a

RECURSIVE GCD(_, _)
GCD(a, b) == IF b = 0 THEN a ELSE GCD(b, a % b)

\* the rational n/d in lowest terms with a positive denominator (d # 0)
Rat(n, d) ==
  LET g == GCD(Abs(n), Abs(d))
      s == IF d < 0 THEN -1 ELSE 1
  IN  <<(s * n) \div g, (s * d) \div g>>

RInt(n) == <<n, 1>>
\* least common multiple of two positive denominators
LCM(a, b) == (a \div GCD(a, b)) * b
\* the numerator of a over the denominator l (a multiple of a's denominator)
Over(a, l) == a[1] * (l \div a[2])
RAdd(a, b) == LET l == LCM(a[2], b[2]) IN Rat(Over(a, l) + Over(b, l), l)
RSub(a, b) == LET l == LCM(a[2], b[2]) IN Rat(Over(a, l) - Over(b, l), l)
RMul(a, b) ==
  LET g1 == GCD(Abs(a[1]), b[2])
      g2 == GCD(Abs(b[1]), a[2])
  IN  <<(a[1] \div g1) * (b[1] \div g2), (a[2] \div g2) * (b[2] \div g1)>>
\* a / b for b # 0
RDiv(a, b) ==
  IF b[1] < 0 THEN RMul(a, <<-b[2], -b[1]>>) ELSE RMul(a, <<b[2], b[1]>>)
RLt(a, b) == LET l == LCM(a[2], b[2]) IN Over(a, l) < Over(b, l)
RLe(a, b) == LET l == LCM(a[2], b[2]) IN Over(a, l) <= Over(b, l)
RAbs(a) == <<Abs(a[1]), a[2]>>
RMin(a, b) == IF RLt(b, a) THEN b ELSE a
RMax(a, b) == IF RLt(a, b) THEN b ELSE a
\* Math.floor and Math.ceil, as integers
Floor(a) == a[1] \div a[2]
Ceil(a) == -((-a[1]) \div a[2])
IsInt(a) == a[2] = 1

Pow2(k) == 2 ^ k

\* Math.pow(2.0, k) for any integer k
RPow2(k) == IF k >= 0 THEN <<Pow2(k), 1>> ELSE <<1, Pow2(-k)>>

(***************************************************************************)
(* 32-bit signed integer operators of JavaScript: a << k, a >> k, a & b.   *)
(* The shift count is taken modulo 32.                                     *)
(***************************************************************************)
\* a << s for 0 < s < 32: the low 32 - s bits of a move up, bit 31 - s becomes
\* the sign bit (2^31 itself is never formed)
ShlBy(a, s) ==
  LET half == Pow2(31 - s)
      low == a % half
      top == (a \div half) % 2
      moved == IF low = 0 THEN 0 ELSE low * Pow2(s)
  IN  IF top = 1 THEN (moved - Pow2(30)) - Pow2(30) ELSE moved

Shl(a, k) == IF k % 32 = 0 THEN a ELSE ShlBy(a, k % 32)

\* a >> k, sign-propagating
Sar(a, k) ==
  IF k % 32 = 31 THEN (IF a < 0 THEN -1 ELSE 0) ELSE a \div Pow2(k % 32)

\* bit i (0 .. 31) of a in two's complement
Bit(a, i) == IF i = 31 THEN (IF a < 0 THEN 1 ELSE 0) ELSE (a \div Pow2(i)) % 2

\* the bits lo .. hi (below bit 31) that a and b share, as a number
RECURSIVE AndBits(_, _, _, _)
AndBits(a, b, lo, hi) ==
  IF lo = hi THEN Bit(a, lo) * Bit(b, lo) * Pow2(lo)
  ELSE AndBits(a, b, lo, (lo + hi) \div 2) + AndBits(a, b, (lo + hi) \div 2 + 1, hi)

\* a & b
And32(a, b) ==
  IF a < 0 /\ b < 0
    THEN (AndBits(a, b, 0, 30) - Pow2(30)) - Pow2(30)
    ELSE AndBits(a, b, 0, 30)

(***************************************************************************)
(* Tile identifier codec (util.ts, encodeTile / decodeTile).               *)
(***************************************************************************)
\* encodeTile without the header of zoom 14
encodeTileNoHeader14(z, x, y) ==
  LET header == IF z = 15 THEN 3 ELSE 0
      res0 == 0 + Shl(header, 30)
      res1 == IF z < 14 THEN res0 + Shl(And32(z, 15), 26) ELSE res0
      mask == Shl(1, z) - 1
      res2 == res1 + And32(x, mask)
  IN  res2 + Shl(And32(y, mask), z)

encodeTile(z, x, y) ==
  LET header == IF z = 15 THEN 3 ELSE IF z = 14 THEN 2 ELSE 0
      res0 == 0 + Shl(header, 30)
      res1 == IF z < 14 THEN res0 + Shl(And32(z, 15), 26) ELSE res0
      mask == Shl(1, z) - 1
      res2 == res1 + And32(x, mask)
  IN  res2 + Shl(And32(y, mask), z)

decodeTile(tile) ==
  LET header == And32(Sar(tile, 30), 3)
      z == IF header = 3 THEN 15
           ELSE IF header = 2 THEN 14
           ELSE And32(Sar(tile, 26), 15)
      mask == Shl(1, z) - 1
  IN  <<z, And32(tile, mask), And32(Sar(tile, z), mask)>>

\* sampled tile coordinates of zoom z: both ends of 0 .. 2^z - 1 and the middle
CoordSamples(z) ==
  { c \in (0 .. EdgeSamples) \cup { Pow2(z) - 1 - k : k \in 0 .. EdgeSamples }
            \cup { Pow2(z) \div 2 } : c >= 0 /\ c < Pow2(z) }

IdleCodec == [pc |-> "idle", z |-> 0, x |-> 0, y |-> 0, tile |-> 0, out |-> <<>>]


InitCodec ==
  \E z \in 0 .. MAX_ZOOM_ENCODE + MaxOverZoom :
    \E x \in CoordSamples(z), y \in CoordSamples(z) :
      codec = [pc |-> "start", z |-> z, x |-> x, y |-> y, tile |-> 0, out |-> <<>>]

\* const t = encodeTile(z, x, y): the function has no path that rejects
Encode ==
  /\ codec.pc = "start"
  /\ codec' = [codec EXCEPT !.pc = "encoded",
                            !.tile = encodeTile(codec.z, codec.x, codec.y)]

\* const [a, b, c] = decodeTile(t)
Decode ==
  /\ codec.pc = "encoded"
  /\ codec' = [codec EXCEPT !.pc = "decoded", !.out = decodeTile(codec.tile)]

(***************************************************************************)
(* Coordinate frame (util.ts, class TileCoordinate).  A coordinate is the  *)
(* record [ok, x, y] with x and y at zoom MAX_ZOOM; the constructor's      *)
(* throw is the record [ok |-> FALSE].                                     *)
(***************************************************************************)
\* the constructor with the zoom test off by one (zoom = MAX_ZOOM rejected)
TileCoordinateStrict(zoom, x, y) ==
  IF zoom >= MAX_ZOOM
    THEN [ok |-> FALSE]
    ELSE [ok |-> TRUE,
          x |-> RMul(x, RInt(Shl(1, MAX_ZOOM - zoom))),
          y |-> RMul(y, RInt(Shl(1, MAX_ZOOM - zoom)))]

TileCoordinate(zoom, x, y) ==
  IF zoom > MAX_ZOOM
    THEN [ok |-> FALSE]
    ELSE [ok |-> TRUE,
          x |-> RMul(x, RInt(Shl(1, MAX_ZOOM - zoom))),
          y |-> RMul(y, RInt(Shl(1, MAX_ZOOM - zoom)))]

atZoom(c, zoom) ==
  LET factor == RPow2(zoom - MAX_ZOOM)
  IN  <<RMul(c.x, factor), RMul(c.y, factor)>>

\* coordinates k/2 for k in 0 .. EdgeSamples + 4
HalfSamples == { Rat(k, 2) : k \in 0 .. EdgeSamples + 4 }

IdleCoord == [pc |-> "idle"]

InitCoord ==
  \E zoom \in 0 .. MAX_ZOOM + MaxOverZoom :
    \E x \in HalfSamples, y \in HalfSamples :
      coord = [pc |-> "start", zoom |-> zoom, x |-> x, y |-> y,
               c |-> [ok |-> FALSE], z |-> 0, out |-> <<>>]

\* new TileCoordinate(zoom, x, y) returns the object
Construct ==
  /\ coord.pc = "start"
  /\ TileCoordinate(coord.zoom, coord.x, coord.y).ok
  /\ coord' = [coord EXCEPT !.pc = "built",
                            !.c = TileCoordinate(coord.zoom, coord.x, coord.y)]

\* new TileCoordinate(zoom, x, y) throws: no object exists afterwards
ConstructThrows ==
  /\ coord.pc = "start"
  /\ ~TileCoordinate(coord.zoom, coord.x, coord.y).ok
  /\ coord' = [coord EXCEPT !.pc = "thrown"]

\* c.atZoom(z), for a z of any size
AtZoom ==
  /\ coord.pc = "built"
  /\ \E z \in (0 - MaxOverZoom) .. (MAX_ZOOM + MaxOverZoom) :
       coord' = [coord EXCEPT !.pc = "scaled", !.z = z, !.out = atZoom(coord.c, z)]

(***************************************************************************)
(* Tile containment and joining (util.ts, tileContains / joinTiles /       *)
(* tileContaining).  A TileId is <<zoom, x, y>> with integer x and y.      *)
(***************************************************************************)
\* tileContains without the test of the far edges
tileContainsNearEdge(tile0, tile1) ==
  IF tile1[1] < tile0[1] THEN FALSE
  ELSE
    LET p0 == atZoom(TileCoordinate(tile0[1], RInt(tile0[2]), RInt(tile0[3])), 0)
        p1 == atZoom(TileCoordinate(tile1[1], RInt(tile1[2]), RInt(tile1[3])), 0)
    IN  /\ RLe(p0[1], p1[1])
        /\ RLe(p0[2], p1[2])

tileContains(tile0, tile1) ==
  IF tile1[1] < tile0[1] THEN FALSE
  ELSE
    LET p0 == atZoom(TileCoordinate(tile0[1], RInt(tile0[2]), RInt(tile0[3])), 0)
        tile0Size == atZoom(TileCoordinate(tile0[1], RInt(1), RInt(1)), 0)[1]
        p1 == atZoom(TileCoordinate(tile1[1], RInt(tile1[2]), RInt(tile1[3])), 0)
        tile1Size == atZoom(TileCoordinate(tile1[1], RInt(1), RInt(1)), 0)[1]
    IN  /\ RLe(p0[1], p1[1])
        /\ RLe(RAdd(p1[1], tile1Size), RAdd(p0[1], tile0Size))
        /\ RLe(p0[2], p1[2])
        /\ RLe(RAdd(p1[2], tile1Size), RAdd(p0[2], tile0Size))

\* the zoom-minus-one tile that joinTiles replaces tile0 by
ParentTile(tile0) ==
  LET p == atZoom(TileCoordinate(tile0[1], RInt(tile0[2]), RInt(tile0[3])), tile0[1] - 1)
  IN  <<tile0[1] - 1, Floor(p[1]), Floor(p[2])>>

\* joinTiles that stops one zoom level early
RECURSIVE joinTilesShort(_, _)
joinTilesShort(tile0, tile1) ==
  IF tileContains(tile0, tile1) \/ tileContains(ParentTile(tile0), tile1)
    THEN tile0
    ELSE joinTilesShort(ParentTile(tile0), tile1)

RECURSIVE joinTiles(_, _)
joinTiles(tile0, tile1) ==
  IF tileContains(tile0, tile1) THEN tile0 ELSE joinTiles(ParentTile(tile0), tile1)

\* the loop of tileContaining: res after joining ts[i], ts[i+1], ...
RECURSIVE joinFrom(_, _, _)
joinFrom(res, ts, i) ==
  IF i > Len(ts) THEN res ELSE joinFrom(joinTiles(res, ts[i]), ts, i + 1)

tileContaining(ts) ==
  IF Len(ts) = 0 THEN <<0, 0, 0>> ELSE joinFrom(ts[1], ts, 2)

\* the valid TileIds of zoom 0 .. MaxTileZoom
ValidTiles ==
  { t \in (0 .. MaxTileZoom) \X (0 .. Pow2(MaxTileZoom) - 1) \X (0 .. Pow2(MaxTileZoom) - 1) :
      t[2] < Pow2(t[1]) /\ t[3] < Pow2(t[1]) }

\* sampled valid TileIds of the two deepest zooms a TileCoordinate accepts
DeepTiles ==
  UNION { { <<z, x, y>> : x \in CoordSamples(z), y \in CoordSamples(z) } :
            z \in {MAX_ZOOM - 1, MAX_ZOOM} }

\* the four corner tiles of the deepest zoom
CornerTiles == { <<MAX_ZOOM, x, y>> : x \in {0, Pow2(MAX_ZOOM) - 1}, y \in {0, Pow2(MAX_ZOOM) - 1} }

\* the tiles that lists are drawn from
JoinTiles == { t \in ValidTiles : t[1] <= MaxJoinZoom } \cup CornerTiles

\* the lists of testTileContaining
TestLists ==
  { <<<<2, 1, 2>>, <<3, 2, 4>>>>,
    <<<<3, 4, 2>>, <<3, 6, 1>>, <<2, 3, 1>>, <<3, 0, 7>>>>,
    <<<<3, 4, 2>>, <<3, 6, 1>>, <<2, 3, 1>>>> }

TileLists == UNION { [1 .. n -> JoinTiles] : n \in 0 .. MaxTiles } \cup TestLists

IdleTiles == [pc |-> "idle"]

InitContains ==
  \E outer \in ValidTiles \cup DeepTiles, inner \in ValidTiles \cup DeepTiles :
    tiles = [pc |-> "start", outer |-> outer, inner |-> inner, out |-> FALSE]

\* tileContains(outer, inner)
Contains ==
  /\ tiles.pc = "start"
  /\ tiles' = [tiles EXCEPT !.pc = "done", !.out = tileContains(tiles.outer, tiles.inner)]

InitJoin ==
  \E ts \in TileLists :
    tiles = [pc |-> "list", list |-> ts, out |-> <<>>]

\* tileContaining(list)
Containing ==
  /\ tiles.pc = "list"
  /\ tiles' = [tiles EXCEPT !.pc = "joined", !.out = tileContaining(tiles.list)]

(***************************************************************************)
(* Line rasterisation (util.ts, lineCrossedTilesHorizontal /               *)
(* getLineCrossedTiles).  A cell is <<column, row>> of integers.           *)
(***************************************************************************)
\* the value of the sub-axis at xx on the line through (x0, y0), (x1, y1)
LineY(x0, y0, x1, y1, xx) ==
  RAdd(y0, RMul(RSub(y1, y0), RDiv(RSub(xx, x0), RSub(x1, x0))))

\* the next coordinate the loop examines after x
NextX(x0, x1, x) ==
  IF x = x0 THEN RInt(Ceil(x))
  ELSE IF RLt(x1, RAdd(x, RInt(1))) THEN x1
  ELSE RAdd(x, RInt(1))

\* the cells one iteration of the loop pushes, in the order pushed
StepCells(x0, y0, x1, y1, x) ==
  LET nextX == NextX(x0, x1, x)
      bound0 == LineY(x0, y0, x1, y1, x)
      bound1 == LineY(x0, y0, x1, y1, nextX)
      lowY == Floor(RMin(bound0, bound1))
      highY == Floor(RMax(bound0, bound1))
  IN  [k \in 1 .. (highY - lowY + 1) |-> <<Floor(x), lowY + k - 1>>]

\* lineCrossedTilesHorizontal from the loop state (x, res) on.  An iteration
\* that leaves x unchanged repeats for ever: the call never returns (hung).
RECURSIVE HorizontalFrom(_, _, _, _, _, _)
HorizontalFrom(x0, y0, x1, y1, x, res) ==
  IF ~RLt(x, x1) THEN [hung |-> FALSE, res |-> res]
  ELSE IF NextX(x0, x1, x) = x THEN [hung |-> TRUE, res |-> res]
  ELSE HorizontalFrom(x0, y0, x1, y1, NextX(x0, x1, x),
                      res \o StepCells(x0, y0, x1, y1, x))

lineCrossedTilesHorizontal(x0, y0, x1, y1) ==
  HorizontalFrom(x0, y0, x1, y1, x0, <<>>)

\* whether getLineCrossedTiles(l0, l1, zoom) marches along x (|dy| <= |dx|)
Horizontalish(l0, l1, zoom) ==
  LET p0 == atZoom(l0, zoom)
      p1 == atZoom(l1, zoom)
  IN  RLe(RAbs(RSub(p1[2], p0[2])), RAbs(RSub(p1[1], p0[1])))

\* whether getLineCrossedTiles(l0, l1, zoom) calls itself with l1 and l0 swapped;
\* this variant never does
NeedsSwapNever(l0, l1, zoom) == FALSE

NeedsSwap(l0, l1, zoom) ==
  LET p0 == atZoom(l0, zoom)
      p1 == atZoom(l1, zoom)
  IN  IF Horizontalish(l0, l1, zoom)
        THEN RLt(RSub(p1[1], p0[1]), RInt(0))
        ELSE RLt(RSub(p1[2], p0[2]), RInt(0))

\* the arguments <<x0, y0, x1, y1>> handed to lineCrossedTilesHorizontal
HorizontalArgs(l0, l1, zoom) ==
  LET p0 == atZoom(l0, zoom)
      p1 == atZoom(l1, zoom)
  IN  IF Horizontalish(l0, l1, zoom)
        THEN <<p0[1], p0[2], p1[1], p1[2]>>
        ELSE <<p0[2], p0[1], p1[2], p1[1]>>

\* the final maps of getLineCrossedTiles: cells to TileIds, transposed back
\* when the march was along y
CellsToTiles(res, horizontal, zoom) ==
  [k \in 1 .. Len(res) |->
     IF horizontal THEN <<zoom, res[k][1], res[k][2]>>
                   ELSE <<zoom, res[k][2], res[k][1]>>]

\* getLineCrossedTiles as a function: [hung, res]
getLineCrossedTiles(l0, l1, zoom) ==
  LET s0 == IF NeedsSwap(l0, l1, zoom) THEN l1 ELSE l0
      s1 == IF NeedsSwap(l0, l1, zoom) THEN l0 ELSE l1
      args == HorizontalArgs(s0, s1, zoom)
      r == lineCrossedTilesHorizontal(args[1], args[2], args[3], args[4])
  IN  [hung |-> r.hung, res |-> CellsToTiles(r.res, Horizontalish(s0, s1, zoom), zoom)]

\* end points of the rasterised segments, given at zoom LineZoom
LinePoints ==
  { TileCoordinate(LineZoom, Rat(i, 2), Rat(j, 2)) : i \in 0 .. MaxHalfX, j \in 0 .. MaxHalfY }

IdleLine == [pc |-> "idle"]

\* getLineCrossedTiles(a, b, zoom) is run first, getLineCrossedTiles(b, a, zoom) second
InitLine ==
  \E a \in LinePoints, b \in LinePoints, zoom \in {LineZoom - 1, LineZoom} :
    line = [pc |-> "call", a |-> a, b |-> b, zoom |-> zoom, pass |-> 1,
            l0 |-> a, l1 |-> b, args |-> <<>>, x |-> RInt(0), res |-> <<>>,
            out1 |-> <<>>, out2 |-> <<>>]

\* return getLineCrossedTiles(l1, l0, zoom)
LineSwap ==
  /\ line.pc = "call"
  /\ NeedsSwap(line.l0, line.l1, line.zoom)
  /\ line' = [line EXCEPT !.l0 = line.l1, !.l1 = line.l0]

\* res = lineCrossedTilesHorizontal(...): entry, let x = x0
LineEnter ==
  /\ line.pc = "call"
  /\ ~NeedsSwap(line.l0, line.l1, line.zoom)
  /\ line' = [line EXCEPT !.pc = "loop",
                          !.args = HorizontalArgs(line.l0, line.l1, line.zoom),
                          !.x = HorizontalArgs(line.l0, line.l1, line.zoom)[1],
                          !.res = <<>>]

\* one iteration of while(x < x1)
LineStep ==
  /\ line.pc = "loop"
  /\ RLt(line.x, line.args[3])
  /\ Len(line.res) < MaxCells
  /\ line' = [line EXCEPT
       !.x = NextX(line.args[1], line.args[3], line.x),
       !.res = line.res \o StepCells(line.args[1], line.args[2], line.args[3],
                                     line.args[4], line.x)]

\* the loop ends and getLineCrossedTiles returns; the second call follows the first
LineReturn ==
  /\ line.pc = "loop"
  /\ ~RLt(line.x, line.args[3])
  /\ LET out == CellsToTiles(line.res, Horizontalish(line.l0, line.l1, line.zoom), line.zoom)
     IN  IF line.pass = 1
           THEN line' = [line EXCEPT !.pc = "call", !.pass = 2, !.out1 = out,
                                     !.l0 = line.b, !.l1 = line.a]
           ELSE line' = [line EXCEPT !.pc = "done", !.out2 = out]

(***************************************************************************)
(* tileContainingRoute (util.ts).  A waypoint is given by its projection   *)
(* <<x, y>> to zoom-0 tile space, the value TileCoordinate.fromLonLat      *)
(* hands to the constructor.  The TileId returned holds rationals, since   *)
(* the one-waypoint branch returns atZoom's numbers as they are.           *)
(***************************************************************************)
\* TileCoordinate.fromLonLat(lon, lat), from the projected pair on
fromLonLat(p) == TileCoordinate(0, p[1], p[2])

RatTile(t) == <<t[1], RInt(t[2]), RInt(t[3])>>

RoutePoints ==
  { <<Rat(i, 2 * Pow2(MAX_ZOOM_ENCODE)), Rat(j, 2 * Pow2(MAX_ZOOM_ENCODE))>> :
      i \in 1 .. MaxRouteHalf, j \in 1 .. MaxRouteHalf }

Routes == UNION { [1 .. n -> RoutePoints] : n \in 0 .. MaxRouteLen }

IdleRoute == [pc |-> "idle"]

InitRoute ==
  \E r \in Routes :
    route = [pc |-> "start", pts |-> r, i |-> 1, res |-> <<>>, out |-> <<>>]

\* if(route.length === 0) return [0, 0, 0]
RouteEmpty ==
  /\ route.pc = "start"
  /\ Len(route.pts) = 0
  /\ route' = [route EXCEPT !.pc = "done", !.out = RatTile(<<0, 0, 0>>)]

\* else if(route.length === 1) return [MAX_ZOOM_ENCODE, x, y]
RouteSingle ==
  /\ route.pc = "start"
  /\ Len(route.pts) = 1
  /\ LET p == atZoom(fromLonLat(route.pts[1]), MAX_ZOOM_ENCODE)
     IN  route' = [route EXCEPT !.pc = "done", !.out = <<MAX_ZOOM_ENCODE, p[1], p[2]>>]

\* one iteration of the loop over the segments
RouteSegment ==
  /\ route.pc = "start"
  /\ Len(route.pts) >= 2
  /\ route.i < Len(route.pts)
  /\ LET crossed == getLineCrossedTiles(fromLonLat(route.pts[route.i]),
                                        fromLonLat(route.pts[route.i + 1]),
                                        MAX_ZOOM_ENCODE)
     IN  /\ ~crossed.hung
         /\ route' = [route EXCEPT !.i = route.i + 1,
                                   !.res = Append(route.res, tileContaining(crossed.res))]

\* the iteration whose getLineCrossedTiles call never returns
RouteSegmentHangs ==
  /\ route.pc = "start"
  /\ Len(route.pts) >= 2
  /\ route.i < Len(route.pts)
  /\ getLineCrossedTiles(fromLonLat(route.pts[route.i]),
                         fromLonLat(route.pts[route.i + 1]), MAX_ZOOM_ENCODE).hung
  /\ route' = [route EXCEPT !.pc = "hung"]

\* return tileContaining(res)
RouteReturn ==
  /\ route.pc = "start"
  /\ Len(route.pts) >= 2
  /\ route.i = Len(route.pts)
  /\ route' = [route EXCEPT !.pc = "done", !.out = RatTile(tileContaining(route.res))]

(***************************************************************************)
(* Bounding boxes (util.ts, bbOverlap1d / boundBoxOverlap).  A box is      *)
(* <<<<minX, minY>>, <<maxX, maxY>>>>; the axis i is 0 or 1.               *)
(***************************************************************************)
\* bbOverlap1d with the second comparison left out
bbOverlap1dOneSided(b0, b1, i) == b0[2][i + 1] >= b1[1][i + 1]

bbOverlap1d(b0, b1, i) ==
  b0[2][i + 1] >= b1[1][i + 1] /\ b1[2][i + 1] >= b0[1][i + 1]

boundBoxOverlap(b0, b1) == bbOverlap1d(b0, b1, 0) /\ bbOverlap1d(b0, b1, 1)

\* all boxes over the coordinates, also those with min > max
Boxes ==
  { <<<<a, b>>, <<c, d>>>> :
      a \in 0 .. MaxBoxCoord, b \in 0 .. MaxBoxCoord,
      c \in 0 .. MaxBoxCoord, d \in 0 .. MaxBoxCoord }

IdleBoxes == [pc |-> "idle"]

InitBoxes ==
  \E a \in Boxes, b \in Boxes :
    boxes = [pc |-> "start", a |-> a, b |-> b, ab |-> FALSE, ba |-> FALSE]

\* boundBoxOverlap(a, b)
Overlap ==
  /\ boxes.pc = "start"
  /\ boxes' = [boxes EXCEPT !.pc = "once", !.ab = boundBoxOverlap(boxes.a, boxes.b)]

\* boundBoxOverlap(b, a)
OverlapReversed ==
  /\ boxes.pc = "once"
  /\ boxes' = [boxes EXCEPT !.pc = "done", !.ba = boundBoxOverlap(boxes.b, boxes.a)]

(***************************************************************************)
(* Viewport (util.ts, class Viewport): pan, zoom and matchAspect, called   *)
(* by the mouse, wheel and resize handlers of the application.  The scale  *)
(* of zoom is an integer here, so that Math.pow(2.0, scale) is rational;   *)
(* the canvas height is positive, so that width / height is finite.        *)
(***************************************************************************)
Viewport(x0, y0, x1, y1) == [x0 |-> x0, y0 |-> y0, x1 |-> x1, y1 |-> y1]

pan(v, dX, dY) ==
  LET sx == RSub(v.x1, v.x0)
      sy == RSub(v.y1, v.y0)
  IN  Viewport(RAdd(v.x0, RMul(dX, sx)), RAdd(v.y0, RMul(dY, sy)),
               RAdd(v.x1, RMul(dX, sx)), RAdd(v.y1, RMul(dY, sy)))

\* zoom that scales the horizontal span only
zoomHorizontalOnly(v, scale, cX, cY) ==
  LET sx == RSub(v.x1, v.x0)
      nX == RAdd(v.x0, RMul(cX, sx))
      factor == RPow2(scale)
  IN  Viewport(RAdd(nX, RMul(RSub(v.x0, nX), factor)), v.y0,
               RAdd(nX, RMul(RSub(v.x1, nX), factor)), v.y1)

zoom(v, scale, cX, cY) ==
  LET sx == RSub(v.x1, v.x0)
      sy == RSub(v.y1, v.y0)
      nX == RAdd(v.x0, RMul(cX, sx))
      nY == RAdd(v.y0, RMul(cY, sy))
      factor == RPow2(scale)
      d0X == RMul(RSub(v.x0, nX), factor)
      d0Y == RMul(RSub(v.y0, nY), factor)
      d1X == RMul(RSub(v.x1, nX), factor)
      d1Y == RMul(RSub(v.y1, nY), factor)
  IN  Viewport(RAdd(nX, d0X), RAdd(nY, d0Y), RAdd(nX, d1X), RAdd(nY, d1Y))

matchAspect(v, width, height) ==
  LET cx == RDiv(RAdd(v.x0, v.x1), RInt(2))
      sy == RSub(v.y1, v.y0)
      sx == RMul(sy, RDiv(RInt(width), RInt(height)))
  IN  Viewport(RSub(cx, RMul(sx, Rat(1, 2))), v.y0, RAdd(cx, RMul(sx, Rat(1, 2))), v.y1)

\* mouse drags of half a view, wheel notches of one zoom step, zoom centres
PanSteps == { Rat(-1, 2), Rat(1, 2) }
ZoomScales == { -1, 0, 1 }
ZoomCentres == { <<Rat(0, 1), Rat(0, 1)>>, <<Rat(1, 2), Rat(1, 2)>>, <<Rat(1, 1), Rat(1, 4)>> }

IdleView == [op |-> "idle"]

\* this.view = new Viewport(0.0, 0.0, 1.0, 1.0)
InitView ==
  view = [v |-> Viewport(RInt(0), RInt(0), RInt(1), RInt(1)), op |-> "new", n |-> 0,
          before |-> Viewport(RInt(0), RInt(0), RInt(1), RInt(1)), in |-> <<>>]

\* mousemove: this.view.pan(...)
Pan ==
  /\ view.n < MaxViewOps
  /\ \E dX \in PanSteps, dY \in PanSteps :
       view' = [v |-> pan(view.v, dX, dY), op |-> "pan", n |-> view.n + 1,
                before |-> view.v, in |-> <<dX, dY>>]

\* wheel: this.view.zoom(...)
Zoom ==
  /\ view.n < MaxViewOps
  /\ \E scale \in ZoomScales, c \in ZoomCentres :
       view' = [v |-> zoom(view.v, scale, c[1], c[2]), op |-> "zoom", n |-> view.n + 1,
                before |-> view.v, in |-> <<scale, c[1], c[2]>>]

\* resize: this.view.matchAspect(this.width, this.height)
MatchAspect ==
  /\ view.n < MaxViewOps
  /\ \E width \in 0 .. MaxPixels, height \in 1 .. MaxPixels :
       view' = [v |-> matchAspect(view.v, width, height), op |-> "matchAspect",
                n |-> view.n + 1, before |-> view.v, in |-> <<width, height>>]

(***************************************************************************)
(* Dataset shards: the divider (feature_divider.ts) files a trail under    *)
(* its tile clamped to MAX_ZOOM_DATA_SPLIT, and loadFeaturesDB (index.ts)  *)
(* loads the shards of Viewport.coveredTiles(MAX_ZOOM_DATA_SPLIT).         *)
(***************************************************************************)
\* coveredTilesZoom that keeps the top-left tile only
coveredTilesZoomCorner(v, z) ==
  LET t0 == atZoom(TileCoordinate(0, v.x0, v.y0), z)
  IN  <<<<Floor(t0[1]), Floor(t0[2])>>, <<Floor(t0[1]), Floor(t0[2])>>>>

coveredTilesZoom(v, z) ==
  LET t0 == atZoom(TileCoordinate(0, v.x0, v.y0), z)
      t1 == atZoom(TileCoordinate(0, v.x1, v.y1), z)
  IN  <<<<Floor(t0[1]), Floor(t0[2])>>, <<Floor(t1[1]), Floor(t1[2])>>>>

coveredTiles(v, max_zoom) ==
  UNION { LET bounds == coveredTilesZoom(v, z)
          IN  { encodeTile(z, x, y) : x \in bounds[1][1] .. bounds[2][1],
                                      y \in bounds[1][2] .. bounds[2][2] } :
          z \in 0 .. max_zoom }

\* the divider's file name for a trail whose packed tile is tile
shardTile(tile) ==
  LET tileId == decodeTile(tile)
      p == atZoom(TileCoordinate(tileId[1], RInt(tileId[2]), RInt(tileId[3])), MAX_ZOOM_DATA_SPLIT)
  IN  IF tileId[1] > MAX_ZOOM_DATA_SPLIT
        THEN encodeTile(MAX_ZOOM_DATA_SPLIT, Floor(p[1]), Floor(p[2]))
        ELSE encodeTile(tileId[1], tileId[2], tileId[3])

\* viewports with x0 <= x1, y0 <= y1 and corners on the half-tile grid of zoom 9
CoverViews ==
  LET at(k) == Rat(k, 2 * Pow2(MAX_ZOOM_DATA_SPLIT))
  IN  { v \in { Viewport(at(a), at(b), at(c), at(d)) :
                  a \in -1 .. MaxCoverHalf, b \in 0 .. MaxCoverHalf,
                  c \in -1 .. MaxCoverHalf, d \in 0 .. MaxCoverHalf } :
          RLe(v.x0, v.x1) /\ RLe(v.y0, v.y1) }

\* zooms of the tiles looked for: the root, around the split zoom, the deepest
CoverZooms ==
  {0, MAX_ZOOM_DATA_SPLIT - 1, MAX_ZOOM_DATA_SPLIT, MAX_ZOOM_DATA_SPLIT + 1, MAX_ZOOM_ENCODE}

CoverTiles ==
  { t \in CoverZooms \X (0 .. MaxCoverCell) \X (0 .. MaxCoverCell) :
      t[2] < Pow2(t[1]) /\ t[3] < Pow2(t[1]) }

IdleCover == [pc |-> "idle"]

InitCover ==
  \E v \in CoverViews, t \in CoverTiles :
    cover = [pc |-> "start", v |-> v, tile |-> t, shard |-> 0, loaded |-> {}]

\* feature_divider: the trail of tile cover.tile goes to the file of its shard
Divide ==
  /\ cover.pc = "start"
  /\ cover' = [cover EXCEPT !.pc = "divided",
                            !.shard = shardTile(encodeTile(cover.tile[1], cover.tile[2], cover.tile[3]))]

\* loadFeaturesDB: the shards of this.view.coveredTiles(MAX_ZOOM_DATA_SPLIT)
LoadFeaturesDB ==
  /\ cover.pc = "divided"
  /\ cover' = [cover EXCEPT !.pc = "loaded",
                            !.loaded = coveredTiles(cover.v, MAX_ZOOM_DATA_SPLIT)]

(***************************************************************************)
(* FeatureEntrySet (util.ts): addFeature and bulkAddFeature.  A feature is *)
(* a record with the fields the set reads; features is the object keyed by *)
(* tile (a function on the registered tiles).  A view is given by viewBB,  *)
(* the longitude / latitude box of its corners.                           *)
(***************************************************************************)
overlapsLonLatBoundBox(viewBB, bb) == boundBoxOverlap(viewBB, bb)

\* new FeatureEntrySet()
FeatureEntrySet == [features |-> <<>>, visibleFeatures |-> <<>>]

\* addFeature that registers a feature only when it is visible
addFeatureVisibleOnly(s, feature, viewBB) ==
  IF overlapsLonLatBoundBox(viewBB, feature.boundBox)
    THEN [features |-> IF feature.tile \in DOMAIN s.features
                         THEN [s.features EXCEPT ![feature.tile] = Append(@, feature)]
                         ELSE s.features @@ (feature.tile :> <<feature>>),
          visibleFeatures |-> Append(s.visibleFeatures, feature)]
    ELSE s

addFeature(s, feature, viewBB) ==
  [features |-> IF feature.tile \in DOMAIN s.features
                  THEN [s.features EXCEPT ![feature.tile] = Append(@, feature)]
                  ELSE s.features @@ (feature.tile :> <<feature>>),
   visibleFeatures |-> IF overlapsLonLatBoundBox(viewBB, feature.boundBox)
                         THEN Append(s.visibleFeatures, feature)
                         ELSE s.visibleFeatures]

\* bulkAddFeature(features, tile, view); own tells that features is the very
\* array the set holds under tile (as when featuresInView passes the list of
\* oldFeatures.hasTile(tile) twice for one packed id), so that the forEach
\* runs over the array after the push
bulkAddFeature(s, features, tile, viewBB, own) ==
  LET list == IF tile \in DOMAIN s.features THEN s.features[tile] \o features ELSE features
      seen == IF own THEN list ELSE features
  IN  [features |-> IF tile \in DOMAIN s.features
                      THEN [s.features EXCEPT ![tile] = list]
                      ELSE s.features @@ (tile :> list),
       visibleFeatures |->
         s.visibleFeatures \o
           SelectSeq(seen, LAMBDA f : overlapsLonLatBoundBox(viewBB, f.boundBox))]

\* the features that are added: trails and a site on two tiles, in the views,
\* at their edge and off them
FeatureSamples ==
  { [id |-> 1, type |-> "trail", tile |-> encodeTile(1, 1, 0), boundBox |-> <<<<0, 0>>, <<1, 1>>>>],
    [id |-> 2, type |-> "trail", tile |-> encodeTile(1, 1, 0), boundBox |-> <<<<2, 2>>, <<2, 2>>>>],
    [id |-> 3, type |-> "site", tile |-> encodeTile(0, 0, 0), boundBox |-> <<<<1, 0>>, <<1, 0>>>>],
    [id |-> 4, type |-> "trail", tile |-> encodeTile(0, 0, 0), boundBox |-> <<<<0, 2>>, <<2, 2>>>>] }

FeatureViews == { <<<<0, 0>>, <<1, 1>>>>, <<<<2, 0>>, <<3, 2>>>> }

FeatureTiles == { f.tile : f \in FeatureSamples }

\* the arrays of features, all of tile t, that a database query returns
BulkLists(t) ==
  UNION { [1 .. n -> { f \in FeatureSamples : f.tile = t }] : n \in 0 .. MaxBulk }

IdleSet == [pc |-> "idle"]

InitSet ==
  fset = [pc |-> "new", s |-> FeatureEntrySet, n |-> 0, before |-> FeatureEntrySet,
          added |-> <<>>, tile |-> 0, viewBB |-> <<>>]

AddFeature ==
  /\ fset.pc # "idle"
  /\ fset.n < MaxAdds
  /\ \E feature \in FeatureSamples, viewBB \in FeatureViews :
       fset' = [pc |-> "addFeature", s |-> addFeature(fset.s, feature, viewBB),
                n |-> fset.n + 1, before |-> fset.s, added |-> <<feature>>,
                tile |-> feature.tile, viewBB |-> viewBB]

\* bulkAddFeature with the array of a database query
BulkAddFeature ==
  /\ fset.pc # "idle"
  /\ fset.n < MaxAdds
  /\ \E tile \in FeatureTiles, viewBB \in FeatureViews :
       \E features \in BulkLists(tile) :
         fset' = [pc |-> "bulkAddFeature",
                  s |-> bulkAddFeature(fset.s, features, tile, viewBB, FALSE),
                  n |-> fset.n + 1, before |-> fset.s, added |-> features,
                  tile |-> tile, viewBB |-> viewBB]

\* bulkAddFeature with the array the set already holds under the tile
BulkAddOwnList ==
  /\ fset.pc # "idle"
  /\ fset.n < MaxAdds
  /\ \E tile \in DOMAIN fset.s.features, viewBB \in FeatureViews :
       fset' = [pc |-> "bulkAddFeature",
                s |-> bulkAddFeature(fset.s, fset.s.features[tile], tile, viewBB, TRUE),
                n |-> fset.n + 1, before |-> fset.s, added |-> fset.s.features[tile],
                tile |-> tile, viewBB |-> viewBB]

(***************************************************************************)
(* Nearest trail (util.ts closestOnLine, distanceToLine,                   *)
(* FeatureEntrySet.closestFeature / closestTrail; index.ts                 *)
(* Path.nearestPoint and the first-point branch of Path.addPoint).  A      *)
(* point is <<x, y>> of rationals.  A distance is carried as its square,   *)
(* which orders distances as Math.sqrt does; Huge stands for 1e100.  An    *)
(* absent excludeId or distThreshold (undefined) is 0: ids are positive,   *)
(* and thresholds too.                                                     *)
(***************************************************************************)
Huge == <<1, 0>>

\* a < b on distances
DistLt(a, b) == IF a = Huge THEN FALSE ELSE IF b = Huge THEN TRUE ELSE RLt(a, b)

\* Math.min on distances
DistMin(a, b) == IF DistLt(b, a) THEN b ELSE a

\* the feature of a call that found none
Undefined == [type |-> "undefined"]

\* the return of closestOnLine: the point and its distance, from dx and dy
closestOnLineReturn(xx, yy, dx, dy) ==
  <<<<xx, yy>>, RAdd(RMul(dx, dx), RMul(dy, dy))>>

\* dx and dy of closestOnLine
closestOnLineAt(point, xx, yy) ==
  closestOnLineReturn(xx, yy, RSub(point[1], xx), RSub(point[2], yy))

\* xx and yy of closestOnLine from param
closestOnLineParam(point, endpoint1, endpoint2, C, D, param) ==
  IF RLt(param, RInt(0)) THEN closestOnLineAt(point, endpoint1[1], endpoint1[2])
  ELSE IF RLt(RInt(1), param) THEN closestOnLineAt(point, endpoint2[1], endpoint2[2])
  ELSE closestOnLineAt(point, RAdd(endpoint1[1], RMul(param, C)),
                              RAdd(endpoint1[2], RMul(param, D)))

\* param of closestOnLine from dot and len_sq
closestOnLineDot(point, endpoint1, endpoint2, C, D, dot, len_sq) ==
  closestOnLineParam(point, endpoint1, endpoint2, C, D,
                     IF len_sq # RInt(0) THEN RDiv(dot, len_sq) ELSE RInt(-1))

\* dot and len_sq of closestOnLine from A, B, C, D
closestOnLineABCD(point, endpoint1, endpoint2, A, B, C, D) ==
  closestOnLineDot(point, endpoint1, endpoint2, C, D,
                   RAdd(RMul(A, C), RMul(B, D)), RAdd(RMul(C, C), RMul(D, D)))

\* <<closest point of the segment, distance>>
closestOnLine(point, endpoint1, endpoint2) ==
  closestOnLineABCD(point, endpoint1, endpoint2,
                    RSub(point[1], endpoint1[1]), RSub(point[2], endpoint1[2]),
                    RSub(endpoint2[1], endpoint1[1]), RSub(endpoint2[2], endpoint1[2]))

distanceToLine(point, endpoint1, endpoint2) == closestOnLine(point, endpoint1, endpoint2)[2]

\* the loop of closestFeature over the segments i, i + 1, ... of a route
RECURSIVE routeMinDist(_, _, _, _)
routeMinDist(r, point, i, minDist) ==
  IF i >= Len(r) THEN minDist
  ELSE routeMinDist(r, point, i + 1, DistMin(minDist, distanceToLine(point, r[i], r[i + 1])))

\* one step of the forEach of closestFeature: best is <<feature, dist>> so far,
\* minDist the distance of f's route (read for a trail only)
closestStep(best, f, excludeId, minDist) ==
  IF f.type = "trail" /\ f.id # excludeId /\ DistLt(minDist, best[2])
    THEN <<f, minDist>>
    ELSE best

\* the forEach of closestFeature from the k-th visible feature on
RECURSIVE closestFrom(_, _, _, _, _)
closestFrom(visibleFeatures, point, excludeId, k, best) ==
  IF k > Len(visibleFeatures) THEN best
  ELSE closestFrom(visibleFeatures, point, excludeId, k + 1,
                   closestStep(best, visibleFeatures[k], excludeId,
                               routeMinDist(visibleFeatures[k].route, point, 1, Huge)))

\* closestFeature that does not look at excludeId
closestFeatureAny(visibleFeatures, point, excludeId) ==
  closestFrom(visibleFeatures, point, 0, 1, <<Undefined, Huge>>)

closestFeature(visibleFeatures, point, excludeId) ==
  closestFrom(visibleFeatures, point, excludeId, 1, <<Undefined, Huge>>)

closestTrail(visibleFeatures, point, excludeId) ==
  closestFeature(visibleFeatures, point, excludeId)

\* one step of the loop of nearestPoint: best is <<closest, minDist>> so far,
\* c the closestOnLine of the segment
nearestStep(best, c) == IF DistLt(c[2], best[2]) THEN c ELSE best

\* the loop of nearestPoint over the segments i, i + 1, ... of the trail
RECURSIVE nearestFrom(_, _, _, _)
nearestFrom(r, point, i, best) ==
  IF i >= Len(r) THEN best
  ELSE nearestFrom(r, point, i + 1, nearestStep(best, closestOnLine(point, r[i], r[i + 1])))

\* the return of nearestPoint, n being <<closest, minDist>> on the trail
nearestPointReturn(point, feature, n, distThreshold) ==
  IF distThreshold = RInt(0) \/ DistLt(n[2], RMul(distThreshold, distThreshold))
    THEN [thrown |-> FALSE, trail |-> feature, pt |-> n[1]]
    ELSE [thrown |-> FALSE, trail |-> Undefined, pt |-> point]

\* nearestPoint after its closestTrail call; thrown: feature.type is read of
\* an undefined feature
nearestPointOn(point, feature, distThreshold) ==
  IF feature = Undefined THEN [thrown |-> TRUE]
  ELSE nearestPointReturn(point, feature,
                          nearestFrom(feature.route, point, 1, <<point, Huge>>),
                          distThreshold)

\* nearestPoint that snaps whatever the distance
nearestPointAlways(point, visibleFeatures, distThreshold) ==
  nearestPointOn(point, closestTrail(visibleFeatures, point, 0)[1], RInt(0))

\* Path.nearestPoint
nearestPoint(point, visibleFeatures, distThreshold) ==
  nearestPointOn(point, closestTrail(visibleFeatures, point, 0)[1], distThreshold)

\* new Path()
Path == [points |-> <<>>, route |-> <<>>]

Pt(x, y) == <<RInt(x), RInt(y)>>

\* the features that can be visible: two trails (the second with a segment of
\* no length), a trail of one waypoint and a site
NearFeatures ==
  { [id |-> 1, type |-> "trail", route |-> <<Pt(0, 0), Pt(4, 0)>>],
    [id |-> 2, type |-> "trail", route |-> <<Pt(0, 2), Pt(2, 2), Pt(2, 2), Pt(2, 4)>>],
    [id |-> 3, type |-> "trail", route |-> <<Pt(3, 3)>>],
    [id |-> 4, type |-> "site", location |-> Pt(1, 1)] }

\* visibleFeatures: up to MaxVisible of the features, in any order
VisibleLists ==
  UNION { { l \in [1 .. n -> NearFeatures] : \A i, j \in 1 .. n : l[i] = l[j] => i = j } :
          n \in 0 .. MaxVisible }

NearPoints == { Pt(x, y) : x \in 0 .. MaxNearCoord, y \in 0 .. MaxNearCoord }

NearThresholds == { RInt(1), RInt(2) }

IdleNear == [pc |-> "idle"]

InitNear ==
  \E l \in VisibleLists, c \in NearPoints :
    near = [pc |-> "start", visibleFeatures |-> l, coord |-> c, excludeId |-> 0,
            followFeatures |-> FALSE, distThreshold |-> RInt(0), out |-> <<>>, path |-> Path]

\* features.closestFeature(coord, excludeId)
ClosestFeature ==
  /\ near.pc = "start"
  /\ \E excludeId \in {0} \cup { f.id : f \in NearFeatures } :
       near' = [near EXCEPT !.pc = "closest", !.excludeId = excludeId,
                            !.out = closestFeature(near.visibleFeatures, near.coord, excludeId)]

\* the pushes of addPoint on the empty path
AddPointPush(followFeatures, distThreshold, pt) ==
  near' = [near EXCEPT
     !.pc = "added", !.followFeatures = followFeatures,
     !.distThreshold = distThreshold,
     !.path = [points |-> Append(near.path.points,
                                 [coord |-> pt, followFeatures |-> followFeatures]),
               route |-> Append(near.path.route, pt)]]

\* addPoint on the empty path once trailPoint is known
AddPointFirst(followFeatures, distThreshold, trailPoint) ==
  /\ followFeatures => ~trailPoint.thrown
  /\ AddPointPush(followFeatures, distThreshold,
                  IF followFeatures THEN trailPoint.pt ELSE near.coord)

\* addPoint on the empty path, straight-line point or first point on a trail
AddPoint ==
  /\ near.pc = "start"
  /\ \E followFeatures \in BOOLEAN, distThreshold \in NearThresholds :
       AddPointFirst(followFeatures, distThreshold,
                     nearestPoint(near.coord, near.visibleFeatures, distThreshold))

\* addPoint whose nearestPoint call throws a TypeError
AddPointThrows ==
  /\ near.pc = "start"
  /\ \E distThreshold \in NearThresholds :
       /\ nearestPoint(near.coord, near.visibleFeatures, distThreshold).thrown
       /\ near' = [near EXCEPT !.pc = "thrown", !.followFeatures = TRUE,
                               !.distThreshold = distThreshold]

(***************************************************************************)
(* Routes along one trail (index.ts Path.dist, pointsEqual,                *)
(* routePointIndex, routeOnTrail).  Indices are the source's, from 0; a    *)
(* TrailPoint is [trail |-> feature, pt |-> point].  Path.dist is carried  *)
(* as its square.  The coordinates of a point are kept in units of Scale,  *)
(* so that the points of a model within TRAIL_INTERSECTION_THRESH of each  *)
(* other, and not equal, have whole coordinates.                           *)
(***************************************************************************)
\* one unit of a coordinate: 1e-4
Scale == <<1, 10000>>

\* 2e-4
TRAIL_INTERSECTION_THRESH == <<2, 10000>>

\* the 1e-5 of pointsEqual
PointsEqualDist == <<1, 100000>>

\* Path.dist, squared
dist(p0, p1) ==
  RAdd(RMul(RSub(p0[1], p1[1]), RSub(p0[1], p1[1])),
       RMul(RSub(p0[2], p1[2]), RSub(p0[2], p1[2])))

\* a length of the program in the units the points are kept in
InUnits(length) == RDiv(length, Scale)

\* d < length for the distance of square d2
DistBelow(d2, length) == DistLt(d2, RMul(InUnits(length), InUnits(length)))

pointsEqual(p0, p1) == DistBelow(dist(p0, p1), PointsEqualDist)

\* array[i] in JavaScript: undefined outside the array
NoPoint == <<>>

At(array, i) == IF i >= 0 /\ i < Len(array) THEN array[i + 1] ELSE NoPoint

\* one step of the loop of routePointIndex: best is <<minDist, minIndex>>
routePointIndexStep(best, d, i) == IF DistLt(d, best[1]) THEN <<d, i>> ELSE best

\* the loop of routePointIndex from index i on
RECURSIVE routePointIndexFrom(_, _, _, _)
routePointIndexFrom(r, p, i, best) ==
  IF i >= Len(r) THEN best[2]
  ELSE routePointIndexFrom(r, p, i + 1, routePointIndexStep(best, dist(r[i + 1], p), i))

routePointIndex(pt) == routePointIndexFrom(pt.trail.route, pt.pt, 0, <<Huge, -1>>)

\* the loop of routeOnTrail: the indices pushed from i on; after MaxPush
\* pushes the loop is left running (returned is FALSE)
RECURSIVE routeOnTrailLoop(_, _, _, _)
routeOnTrailLoop(i, endIndex, dir, pushed) ==
  IF i = endIndex THEN [returned |-> TRUE, pushed |-> pushed]
  ELSE IF Len(pushed) >= MaxPush THEN [returned |-> FALSE, pushed |-> pushed]
  ELSE routeOnTrailLoop(i + dir, endIndex, dir, Append(pushed, i))

\* the pushes after the loop: endWaypoint, and end.pt unless it is the same
routeOnTrailEnd(r, end, endIndex, loop) ==
  IF ~loop.returned
    THEN [returned |-> FALSE, pushed |-> loop.pushed,
          route |-> [k \in 1 .. Len(loop.pushed) |-> At(r, loop.pushed[k])]]
    ELSE [returned |-> TRUE,
          pushed |-> Append(loop.pushed, endIndex),
          route |-> [k \in 1 .. Len(loop.pushed) |-> At(r, loop.pushed[k])]
                      \o <<At(r, endIndex)>>
                      \o (IF pointsEqual(At(r, endIndex), end.pt) THEN <<>> ELSE <<end.pt>>)]

\* routeOnTrail once the refined indices are known
routeOnTrailRefined(start, end, startIndex, endIndex, dir) ==
  routeOnTrailEnd(start.trail.route, end, endIndex,
                  routeOnTrailLoop(startIndex, endIndex, dir, <<>>))

\* the refinement of routeOnTrail: a waypoint the point has passed is skipped
routeOnTrailDir(start, end, startIndex, endIndex, dir) ==
  routeOnTrailRefined(start, end,
    IF DistLt(dist(start.pt, At(start.trail.route, startIndex + dir)),
              dist(At(start.trail.route, startIndex), At(start.trail.route, startIndex + dir)))
      THEN startIndex + dir ELSE startIndex,
    IF DistLt(dist(end.pt, At(start.trail.route, endIndex - dir)),
              dist(At(start.trail.route, endIndex), At(start.trail.route, endIndex - dir)))
      THEN endIndex - dir ELSE endIndex,
    dir)

\* routeOnTrail once the indices of the two points are known
routeOnTrailFrom(start, end, startIndex, endIndex) ==
  IF startIndex = -1 \/ endIndex = -1
    THEN [returned |-> TRUE, pushed |-> <<>>, route |-> NoPoint]
  ELSE IF startIndex = endIndex
    THEN [returned |-> TRUE, pushed |-> <<>>, route |-> <<end.pt>>]
  ELSE routeOnTrailDir(start, end, startIndex, endIndex,
                       IF endIndex > startIndex THEN 1 ELSE -1)

\* Path.routeOnTrail: route is what has been pushed, pushed the indices of
\* the waypoints among it, returned whether the call has returned
routeOnTrail(start, end) ==
  routeOnTrailFrom(start, end, routePointIndex(start), routePointIndex(end))

\* the trails routed along: a trail with two bends, and one segment
TrailSamples ==
  { [id |-> 1, type |-> "trail", route |-> <<Pt(0, 0), Pt(4, 0), Pt(4, 2), Pt(6, 2)>>],
    [id |-> 2, type |-> "trail", route |-> <<Pt(0, 1), Pt(MaxTrailCoord, 1)>>] }

\* what nearestPoint can return on a trail: the closestOnLine points of its
\* segments for the clicks of a grid
TrailPoints(f) ==
  { closestOnLine(Pt(x, y), f.route[i], f.route[i + 1])[1] :
      x \in 0 .. MaxTrailCoord, y \in 0 .. 2, i \in 1 .. Len(f.route) - 1 }

IdleOnTrail == [pc |-> "idle"]

InitOnTrail ==
  \E f \in TrailSamples : \E p, q \in TrailPoints(f) :
    onTrail = [pc |-> "start", start |-> [trail |-> f, pt |-> p],
               end |-> [trail |-> f, pt |-> q], startIndex |-> -1, endIndex |-> -1,
               out |-> [returned |-> FALSE]]

\* Path.routeOnTrail(start, end)
RouteOnTrail ==
  /\ onTrail.pc = "start"
  /\ onTrail' = [onTrail EXCEPT !.pc = "called",
                   !.startIndex = routePointIndex(onTrail.start),
                   !.endIndex = routePointIndex(onTrail.end),
                   !.out = routeOnTrail(onTrail.start, onTrail.end)]

(***************************************************************************)
(* Trail intersections (index.ts Path.matchIntersect,                      *)
(* findTrailIntersections).  An Intersection is                            *)
(* [point, trail0Id, trail1Id].                                            *)
(***************************************************************************)
matchIntersect(intersects, id0, id1) ==
  SelectSeq(intersects,
            LAMBDA i : \/ i.trail0Id = id0 /\ i.trail1Id = id1
                       \/ i.trail1Id = id0 /\ i.trail0Id = id1)

\* .some((i) => Path.dist(i.point, point) < TRAIL_INTERSECTION_THRESH)
someNear(intersects, point) ==
  \E k \in 1 .. Len(intersects) :
    DistBelow(dist(intersects[k].point, point), TRAIL_INTERSECTION_THRESH)

\* one endpoint of findTrailIntersections: closest is the closestTrail of
\* the endpoint, other than the feature itself
intersectEndpoint(intersects, feature, point, closest) ==
  IF /\ DistBelow(closest[2], TRAIL_INTERSECTION_THRESH)
     /\ ~someNear(matchIntersect(intersects, feature.id, closest[1].id), point)
    THEN Append(intersects,
                [point |-> point, trail0Id |-> feature.id, trail1Id |-> closest[1].id])
    ELSE intersects

\* the endPoint of a feature, after its startPoint
intersectEnd(intersects, visibleFeatures, feature) ==
  intersectEndpoint(intersects, feature, feature.route[Len(feature.route)],
                    closestTrail(visibleFeatures, feature.route[Len(feature.route)], feature.id))

\* the forEach callback of findTrailIntersections
intersectFeature(intersects, visibleFeatures, feature) ==
  IF feature.type = "trail"
    THEN intersectEnd(intersectEndpoint(intersects, feature, feature.route[1],
                                        closestTrail(visibleFeatures, feature.route[1], feature.id)),
                      visibleFeatures, feature)
    ELSE intersects

\* the forEach of findTrailIntersections from the k-th visible feature on
RECURSIVE findTrailIntersectionsFrom(_, _, _)
findTrailIntersectionsFrom(visibleFeatures, k, intersects) ==
  IF k > Len(visibleFeatures) THEN intersects
  ELSE findTrailIntersectionsFrom(visibleFeatures, k + 1,
                                  intersectFeature(intersects, visibleFeatures, visibleFeatures[k]))

findTrailIntersections(visibleFeatures) ==
  findTrailIntersectionsFrom(visibleFeatures, 1, <<>>)

\* trails that meet: 1 ends where 2 starts, 3 starts one unit from there, 4
\* ends two units from trail 2, 5 starts where 2 ends; and a site
JunctionFeatures ==
  { [id |-> 1, type |-> "trail", route |-> <<Pt(0, 0), Pt(2, 0), Pt(4, 0)>>],
    [id |-> 2, type |-> "trail", route |-> <<Pt(4, 0), Pt(4, 2), Pt(4, 4)>>],
    [id |-> 3, type |-> "trail", route |-> <<Pt(5, 0), Pt(MaxTrailCoord, 0)>>],
    [id |-> 4, type |-> "trail", route |-> <<Pt(0, 3), Pt(2, 3)>>],
    [id |-> 5, type |-> "trail", route |-> <<Pt(4, 4), Pt(MaxTrailCoord, 4)>>],
    [id |-> 6, type |-> "site", location |-> Pt(4, 0)] }

\* visibleFeatures: up to MaxJunction of the features, in any order
JunctionLists ==
  UNION { { l \in [1 .. n -> JunctionFeatures] : \A i, j \in 1 .. n : l[i] = l[j] => i = j } :
          n \in 0 .. MaxJunction }

IdleIntersect == [pc |-> "idle"]

InitIntersect ==
  \E l \in JunctionLists : intersect = [pc |-> "start", visibleFeatures |-> l, out |-> <<>>]

\* Path.findTrailIntersections(features)
FindTrailIntersections ==
  /\ intersect.pc = "start"
  /\ intersect' = [intersect EXCEPT !.pc = "found",
                                    !.out = findTrailIntersections(intersect.visibleFeatures)]

(***************************************************************************)
(* Route finding (util.ts routeLengthMiles, FeatureEntrySet.findTrail;     *)
(* index.ts Path.splitIntersects, findRouteStep, findRoute and the branch  *)
(* of Path.addPoint that follows trails from the previous point).  The     *)
(* result of a search is [returned, found, route, deepest]: returned is    *)
(* FALSE when a routeOnTrail loop was left running, found is FALSE for     *)
(* undefined, deepest is the least depth a findRouteStep call was given.   *)
(* coordDistMiles is the great-circle length; the segments of the model's  *)
(* routes are parallel to an axis and within 1e-2 degree of the equator,   *)
(* where that length is |dx| + |dy| times a factor that is the same for    *)
(* every segment to nine digits: lengths are compared by |dx| + |dy|.      *)
(***************************************************************************)
coordDistMiles(c0, c1) == RAdd(RAbs(RSub(c1[1], c0[1])), RAbs(RSub(c1[2], c0[2])))

\* the loop of routeLengthMiles from index i (from 1) on
RECURSIVE routeLengthFrom(_, _, _)
routeLengthFrom(r, i, len) ==
  IF i >= Len(r) THEN len
  ELSE routeLengthFrom(r, i + 1, RAdd(len, coordDistMiles(r[i], r[i + 1])))

routeLengthMiles(r) == routeLengthFrom(r, 1, RInt(0))

\* the loop of FeatureEntrySet.findTrail from the i-th visible feature on
RECURSIVE findTrailFrom(_, _, _)
findTrailFrom(visibleFeatures, id, i) ==
  IF i > Len(visibleFeatures) THEN Undefined
  ELSE IF visibleFeatures[i].id = id /\ visibleFeatures[i].type = "trail"
    THEN visibleFeatures[i]
    ELSE findTrailFrom(visibleFeatures, id, i + 1)

findTrail(visibleFeatures, id) == findTrailFrom(visibleFeatures, id, 1)

\* <<match, noMatch>>
splitIntersects(intersects, id) ==
  << SelectSeq(intersects, LAMBDA i : i.trail0Id = id \/ i.trail1Id = id),
     SelectSeq(intersects, LAMBDA i : ~(i.trail0Id = id \/ i.trail1Id = id)) >>

\* one step of the choice of the shortest route: best is <<minDist, minDistI>>
shortestStep(best, len, i) == IF RLt(len, best[1]) THEN <<len, i>> ELSE best

\* the loop that chooses the shortest route, from the i-th route on
RECURSIVE shortestFrom(_, _, _)
shortestFrom(routes, i, best) ==
  IF i > Len(routes) THEN best[2]
  ELSE shortestFrom(routes, i + 1, shortestStep(best, routeLengthMiles(routes[i]), i))

\* the end of findRouteStep: the shortest of the routes found, or undefined
findRouteChoice(acc) ==
  IF ~acc.returned
    THEN [returned |-> FALSE, found |-> FALSE, route |-> <<>>, deepest |-> acc.deepest]
  ELSE IF Len(acc.routes) > 0
    THEN [returned |-> TRUE, found |-> TRUE, deepest |-> acc.deepest,
          route |-> acc.routes[shortestFrom(acc.routes, 2,
                                            <<routeLengthMiles(acc.routes[1]), 1>>)]]
    ELSE [returned |-> TRUE, found |-> FALSE, route |-> <<>>, deepest |-> acc.deepest]

\* findRouteJct that puts the route from the junction first
findRouteJctSwapped(acc, toJct, nextRoute) ==
  IF ~toJct.returned THEN [acc EXCEPT !.returned = FALSE]
  ELSE [returned |-> nextRoute.returned,
        routes |-> IF nextRoute.returned /\ nextRoute.found
                     THEN Append(acc.routes, nextRoute.route \o toJct.route)
                     ELSE acc.routes,
        deepest |-> IF nextRoute.deepest < acc.deepest THEN nextRoute.deepest
                                                       ELSE acc.deepest]

\* one junction of findRouteStep: toJct runs along the current trail to the
\* junction, nextRoute is the search from the junction on
findRouteJct(acc, toJct, nextRoute) ==
  IF ~toJct.returned THEN [acc EXCEPT !.returned = FALSE]
  ELSE [returned |-> nextRoute.returned,
        routes |-> IF nextRoute.returned /\ nextRoute.found
                     THEN Append(acc.routes, toJct.route \o nextRoute.route)
                     ELSE acc.routes,
        deepest |-> IF nextRoute.deepest < acc.deepest THEN nextRoute.deepest
                                                       ELSE acc.deepest]

\* the search that does not stop at depth 0
maxDepthIgnored(depth) == FALSE

\* if(depth === 0)
maxDepthReached(depth) == depth = 0

\* a junction's other trail
nextTrailId(jct, id) == IF jct.trail0Id = id THEN jct.trail1Id ELSE jct.trail0Id

\* the result of the base case of the search
findRouteOnTrail(onTrailRoute, depth) ==
  [returned |-> onTrailRoute.returned, found |-> onTrailRoute.returned,
   route |-> onTrailRoute.route, deepest |-> depth]

RECURSIVE findRouteStep(_, _, _, _, _)
RECURSIVE findRouteJcts(_, _, _, _, _, _, _, _)

\* the loop of findRouteStep over jcts from the i-th junction on
findRouteJcts(start, end, jcts, jctsRemain, features, depth, i, acc) ==
  IF i > Len(jcts) \/ ~acc.returned THEN findRouteChoice(acc)
  ELSE findRouteJcts(start, end, jcts, jctsRemain, features, depth, i + 1,
         findRouteJct(acc,
           routeOnTrail(start, [pt |-> jcts[i].point, trail |-> start.trail]),
           findRouteStep([pt |-> jcts[i].point,
                          trail |-> findTrail(features, nextTrailId(jcts[i], start.trail.id))],
                         end, jctsRemain, features, depth - 1)))

\* findRouteStep after splitIntersects
findRouteSplit(start, end, split, features, depth) ==
  findRouteJcts(start, end, split[1], split[2], features, depth, 1,
                [returned |-> TRUE, routes |-> <<>>, deepest |-> depth])

findRouteStep(start, end, intersects, features, depth) ==
  IF start.trail.id = end.trail.id THEN findRouteOnTrail(routeOnTrail(start, end), depth)
  ELSE IF maxDepthReached(depth)
    THEN [returned |-> TRUE, found |-> FALSE, route |-> <<>>, deepest |-> depth]
  ELSE findRouteSplit(start, end, splitIntersects(intersects, start.trail.id), features, depth)

findRoute(start, end, features) ==
  IF start.trail.id = end.trail.id
    THEN findRouteOnTrail(routeOnTrail(start, end), ROUTE_FINDING_DEPTH)
    ELSE findRouteStep(start, end, findTrailIntersections(features), features,
                       ROUTE_FINDING_DEPTH)

\* a chain of trails: the k-th ends where the next one starts
ChainTrail(k) ==
  [id |-> k, type |-> "trail",
   route |-> <<Pt(4 * k, 4 * k), Pt(4 * k + 4, 4 * k), Pt(4 * k + 4, 4 * k + 4)>>]

Reversed(s) == [k \in 1 .. Len(s) |-> s[Len(s) + 1 - k]]

\* a trail that ends on the inside of the first segment of a second trail,
\* whose two ends are the two ends of a third
TeeTrails ==
  << [id |-> 1, type |-> "trail", route |-> <<Pt(1, 4), Pt(1, 0)>>],
     [id |-> 2, type |-> "trail", route |-> <<Pt(0, 0), Pt(8, 0)>>],
     [id |-> 3, type |-> "trail", route |-> <<Pt(0, 0), Pt(0, -6), Pt(8, -6), Pt(8, 0)>>] >>

\* visibleFeatures: a chain of up to MaxChain trails (the short ones also in
\* the other order), two of the trails that meet at a junction, or the three
\* trails of TeeTrails
PathLists ==
  { [k \in 1 .. n |-> ChainTrail(k)] : n \in 1 .. MaxChain }
    \cup { Reversed([k \in 1 .. n |-> ChainTrail(k)]) : n \in 2 .. 3 }
    \cup { l \in JunctionLists : Len(l) = 2 /\ \A k \in 1 .. 2 : l[k].type = "trail" }
    \cup { TeeTrails }

\* the point of the segment from p to q a quarter of the way from p
Quarter(p, q) ==
  <<RAdd(p[1], RDiv(RSub(q[1], p[1]), RInt(4))), RAdd(p[2], RDiv(RSub(q[2], p[2]), RInt(4)))>>

\* a click away from every trail
FarClick == <<RInt(0), RInt(-3)>>

\* the clicks of the point the path holds: on the first visible trail, in the
\* first quarter of each segment and on the last waypoint
FirstClicks(l) ==
  { Quarter(l[1].route[i], l[1].route[i + 1]) : i \in 1 .. Len(l[1].route) - 1 }
    \cup { l[1].route[Len(l[1].route)], FarClick }

\* the clicks of the next point: on any visible trail, in the last quarter of
\* each segment and on the last waypoint
PathClicks(l) ==
  UNION { { Quarter(l[k].route[i + 1], l[k].route[i]) : i \in 1 .. Len(l[k].route) - 1 }
            \cup { l[k].route[Len(l[k].route)] } : k \in 1 .. Len(l) }
    \cup {FarClick}

IdlePath == [pc |-> "idle"]

\* a path that holds one point (its first addPoint has returned), and the
\* next click
InitPath ==
  \E l \in PathLists : \E p \in FirstClicks(l), c \in PathClicks(l) :
    path = [pc |-> "start", visibleFeatures |-> l,
            points |-> <<[coord |-> p, followFeatures |-> TRUE]>>, route |-> <<p>>,
            coord |-> c, distThreshold |-> RInt(2),
            startPoint |-> Undefined, endPoint |-> Undefined, shortRoute |-> Undefined]

\* the pushes of addPoint after the search
AddPointRoute(startPoint, endPoint, shortRoute) ==
  /\ shortRoute.returned
  /\ path' = [path EXCEPT
       !.pc = "added", !.startPoint = startPoint, !.endPoint = endPoint,
       !.shortRoute = shortRoute,
       !.points = Append(path.points, [coord |-> endPoint.pt, followFeatures |-> TRUE]),
       !.route = IF ~shortRoute.found THEN Append(path.route, endPoint.pt)
                 ELSE (IF pointsEqual(path.points[Len(path.points)].coord, startPoint.pt)
                         THEN path.route ELSE Append(path.route, startPoint.pt))
                        \o shortRoute.route \o <<endPoint.pt>>]

\* addPoint once startPoint and endPoint are known
AddPointFrom(startPoint, endPoint) ==
  /\ ~startPoint.thrown /\ ~endPoint.thrown
  /\ IF endPoint.trail = Undefined
       THEN path' = [path EXCEPT
              !.pc = "straight", !.startPoint = startPoint, !.endPoint = endPoint,
              !.points = Append(path.points, [coord |-> endPoint.pt, followFeatures |-> TRUE]),
              !.route = Append(path.route, endPoint.pt)]
       ELSE AddPointRoute(startPoint, endPoint,
                          findRoute(startPoint, endPoint, path.visibleFeatures))

\* addPoint with followFeatures on a path that holds a point
AddPointFollow ==
  /\ path.pc = "start"
  /\ AddPointFrom(nearestPoint(path.points[Len(path.points)].coord, path.visibleFeatures, RInt(0)),
                  nearestPoint(path.coord, path.visibleFeatures, path.distThreshold))

\* addPoint, once startPoint and endPoint are known, whose search does not
\* return: a loop of routeOnTrail is running
AddPointSearching(startPoint, endPoint) ==
  /\ ~startPoint.thrown /\ ~endPoint.thrown
  /\ endPoint.trail # Undefined
  /\ ~findRoute(startPoint, endPoint, path.visibleFeatures).returned
  /\ path' = [path EXCEPT !.pc = "running", !.startPoint = startPoint, !.endPoint = endPoint]

AddPointRunning ==
  /\ path.pc = "start"
  /\ AddPointSearching(
       nearestPoint(path.points[Len(path.points)].coord, path.visibleFeatures, RInt(0)),
       nearestPoint(path.coord, path.visibleFeatures, path.distThreshold))

(***************************************************************************)
(* Path under a sequence of addPoint and popPoint calls (index.ts).  A     *)
(* path is the record of its two arrays, [points, route].                  *)
(***************************************************************************)
NotDone(what, p) == [status |-> what, points |-> p.points, route |-> p.route]

\* a push onto the route alone
addPointRouteOnly(p, pt, followFeatures) ==
  [status |-> "returned", points |-> p.points, route |-> Append(p.route, pt)]

\* this.points.push({coord: pt, followFeatures}); this.route.push(pt)
addPointPushed(p, pt, followFeatures) ==
  [status |-> "returned",
   points |-> Append(p.points, [coord |-> pt, followFeatures |-> followFeatures]),
   route |-> Append(p.route, pt)]

\* addPoint after the search
addPointFound(p, startPoint, endPoint, shortRoute) ==
  IF ~shortRoute.returned THEN NotDone("running", p)
  ELSE IF ~shortRoute.found THEN addPointPushed(p, endPoint.pt, TRUE)
  ELSE [status |-> "returned",
        points |-> Append(p.points, [coord |-> endPoint.pt, followFeatures |-> TRUE]),
        route |-> (IF pointsEqual(p.points[Len(p.points)].coord, startPoint.pt)
                     THEN p.route ELSE Append(p.route, startPoint.pt))
                    \o shortRoute.route \o <<endPoint.pt>>]

\* addPoint once startPoint and endPoint are known
addPointBetween(p, startPoint, endPoint, features) ==
  IF startPoint.thrown \/ endPoint.thrown THEN NotDone("thrown", p)
  ELSE IF endPoint.trail = Undefined THEN addPointPushed(p, endPoint.pt, TRUE)
  ELSE addPointFound(p, startPoint, endPoint, findRoute(startPoint, endPoint, features))

\* addPoint of the first point once trailPoint is known
addPointOnto(p, trailPoint) ==
  IF trailPoint.thrown THEN NotDone("thrown", p) ELSE addPointPushed(p, trailPoint.pt, TRUE)

addPoint(p, point, features, distThreshold) ==
  IF ~point.followFeatures THEN addPointPushed(p, point.coord, FALSE)
  ELSE IF Len(p.points) = 0
    THEN addPointOnto(p, nearestPoint(point.coord, features, distThreshold))
  ELSE addPointBetween(p, nearestPoint(p.points[Len(p.points)].coord, features, RInt(0)),
                       nearestPoint(point.coord, features, distThreshold), features)

\* the loop of popPoint: pops from the route until its last element is last_pt
RECURSIVE popRoute(_, _)
popRoute(r, last_pt) ==
  IF Len(r) = 0 THEN r
  ELSE IF r[Len(r)] = last_pt THEN r
  ELSE popRoute(SubSeq(r, 1, Len(r) - 1), last_pt)

\* a pop that leaves the route as it is
popPointKept(pt, points, r) == [pt |-> pt, points |-> points, route |-> r]

\* popPoint after this.points.pop() has returned pt
popPointCut(pt, points, r) ==
  [pt |-> pt, points |-> points,
   route |-> IF Len(points) = 0 THEN <<>> ELSE popRoute(r, points[Len(points)].coord)]

popPoint(p) ==
  IF Len(p.points) = 0 THEN popPointCut(Undefined, <<>>, p.route)
  ELSE popPointCut(p.points[Len(p.points)], SubSeq(p.points, 1, Len(p.points) - 1), p.route)

\* features.visibleFeatures: none, one trail of one segment, or the three
\* trails of TeeTrails
EditLists ==
  { <<>>, <<[id |-> 1, type |-> "trail", route |-> <<Pt(0, 1), Pt(MaxTrailCoord, 1)>>]>>,
    TeeTrails }

\* the clicks: in the first and in the last quarter of the first trail's
\* first segment, on the last waypoint of each trail, and away from every
\* trail
EditClicks(l) ==
  { FarClick }
    \cup { l[k].route[Len(l[k].route)] : k \in 1 .. Len(l) }
    \cup { Quarter(l[k].route[1], l[k].route[2]) : k \in 1 .. Len(l) \cap {1} }
    \cup { Quarter(l[k].route[2], l[k].route[1]) : k \in 1 .. Len(l) \cap {1} }

IdleEdit == [pc |-> "idle"]

\* new Path(): no points, no route.  before is the path before the last
\* call, op the last call, pt what popPoint returned, and calls and pops
\* count the calls made.
InitEdit ==
  \E l \in EditLists :
    edit = [pc |-> "ready", visibleFeatures |-> l, points |-> <<>>, route |-> <<>>,
            calls |-> 0, pops |-> 0, op |-> "none", before |-> Path,
            point |-> Undefined, pt |-> Undefined]

\* the outcome out of addPoint(point, features, 2)
EditAdded(point, out) ==
  edit' = [edit EXCEPT
     !.pc = IF out.status = "returned" THEN "ready" ELSE out.status,
     !.points = out.points, !.route = out.route,
     !.calls = edit.calls + 1, !.op = "add", !.point = point,
     !.before = [points |-> edit.points, route |-> edit.route]]

EditAdd(point) ==
  EditAdded(point, addPoint([points |-> edit.points, route |-> edit.route], point,
                            edit.visibleFeatures, RInt(2)))

\* path.addPoint(point, features, distThreshold) that returns
AddPointReturns ==
  /\ edit.pc = "ready" /\ edit.calls < MaxEdits
  /\ \E c \in EditClicks(edit.visibleFeatures), followFeatures \in BOOLEAN :
       /\ EditAdd([coord |-> c, followFeatures |-> followFeatures])
       /\ edit'.pc = "ready"

\* path.addPoint whose nearestPoint call throws a TypeError
AddPointRaises ==
  /\ edit.pc = "ready" /\ edit.calls < MaxEdits
  /\ \E c \in EditClicks(edit.visibleFeatures) :
       /\ EditAdd([coord |-> c, followFeatures |-> TRUE])
       /\ edit'.pc = "thrown"

\* path.addPoint whose search does not return
AddPointHangs ==
  /\ edit.pc = "ready" /\ edit.calls < MaxEdits
  /\ \E c \in EditClicks(edit.visibleFeatures) :
       /\ EditAdd([coord |-> c, followFeatures |-> TRUE])
       /\ edit'.pc = "running"

EditPopped(out) ==
  edit' = [edit EXCEPT
     !.points = out.points, !.route = out.route, !.pt = out.pt,
     !.calls = edit.calls + 1, !.pops = edit.pops + 1, !.op = "pop",
     !.before = [points |-> edit.points, route |-> edit.route]]

\* path.popPoint()
PopPoint ==
  /\ edit.pc = "ready" /\ edit.calls < MaxEdits
  /\ EditPopped(popPoint([points |-> edit.points, route |-> edit.route]))

(***************************************************************************)
(* The timers of MapApp (index.ts): the wheel timer that runs loadTiles,   *)
(* and the one timer slot loadFeaturesCallbackId shared by                 *)
(* timeoutLoadFeatures and timeoutLoadNewFeatures.  A timer is             *)
(* [id, run, remaining]: the id setTimeout returned (ids are handed out in *)
(* increasing order and never again), the callback it runs, and the time   *)
(* left before it is due; a due timer runs when the event loop takes it.   *)
(***************************************************************************)
\* null, the callback id when no timer has been set: no timer has the id 0
Null == 0

\* window.setTimeout(run, delay), which returns id
setTimeout(timers, id, run, delay) ==
  timers \cup {[id |-> id, run |-> run, remaining |-> delay]}

\* a clearTimeout that clears nothing
clearTimeoutNone(timers, id) == timers

\* window.clearTimeout(id): no effect when no timer of that id is pending
clearTimeout(timers, id) == { t \in timers : t.id # id }

\* if (callbackId != null) window.clearTimeout(callbackId)
clearIfSet(timers, callbackId) ==
  IF callbackId # Null THEN clearTimeout(timers, callbackId) ELSE timers

\* timeoutLoadFeatures / timeoutLoadNewFeatures, which differ in the callback
\* run; wanted records that timeoutLoadFeatures has asked for a loadFeatures
\* run that has not happened yet
timeoutLoad(a, run) ==
  [a EXCEPT
     !.timers = setTimeout(clearIfSet(a.timers, a.loadFeaturesCallbackId),
                           a.nextId, run, FEATURE_LOAD_DELAY),
     !.loadFeaturesCallbackId = a.nextId,
     !.nextId = a.nextId + 1,
     !.wanted = (run = "loadFeatures") \/ a.wanted]

timeoutLoadFeatures(a) == timeoutLoad(a, "loadFeatures")

timeoutLoadNewFeatures(a) == timeoutLoad(a, "runNewFeatures")

\* loadTiles: the layers' loadNew calls, then timeoutLoadFeatures
loadTiles(a) == timeoutLoadFeatures(a)

\* the wheel handler's timer code
wheelTimer(a) ==
  [a EXCEPT
     !.timers = setTimeout(clearIfSet(a.timers, a.wheelCallbackId),
                           a.nextId, "loadTiles", SCROLL_LOAD_DELAY),
     !.wheelCallbackId = a.nextId,
     !.nextId = a.nextId + 1]

\* the timers after time has passed
Later(timers, time) ==
  { [t EXCEPT !.remaining = IF t.remaining > time THEN t.remaining - time ELSE 0] :
      t \in timers }

\* the timer a due callback belonged to is gone
Taken(a, t) == [a EXCEPT !.timers = a.timers \ {t}]

IdleApp == [pc |-> "idle"]

\* the MapApp after its constructor: both callback ids null.  elapsed is
\* the time since the last wheel event (kept up to SCROLL_LOAD_DELAY), burst
\* the wheel events since the wheel timer last ran, burstLoads the loadTiles
\* runs of the wheel timer since the last wheel event, loading the dataset
\* files being loaded, events the wheel and mouse events so far.
InitApp ==
  app = [pc |-> "run", wheelCallbackId |-> Null, loadFeaturesCallbackId |-> Null,
         timers |-> {}, nextId |-> 1, loading |-> 0, events |-> 0,
         elapsed |-> 0, burst |-> 0, burstLoads |-> 0, wanted |-> FALSE,
         last |-> "new"]

\* wheel(e)
Wheel ==
  /\ app.pc = "run" /\ app.events < MaxEvents
  /\ app' = [wheelTimer(app) EXCEPT
       !.events = app.events + 1, !.elapsed = 0,
       !.burst = IF app.burstLoads > 0 THEN 1 ELSE app.burst + 1,
       !.burstLoads = 0, !.last = "wheel"]

\* mousemove(e) with the button down, resize(w, h): the view changes and
\* loadTiles is called at once
MouseMove ==
  /\ app.pc = "run" /\ app.events < MaxEvents
  /\ app' = [loadTiles(app) EXCEPT !.events = app.events + 1, !.last = "mousemove"]

\* half of SCROLL_LOAD_DELAY passes
Tick ==
  /\ app.pc = "run"
  /\ \/ app.elapsed < SCROLL_LOAD_DELAY
     \/ \E t \in app.timers : t.remaining > 0
  /\ app' = [app EXCEPT
       !.timers = Later(app.timers, SCROLL_LOAD_DELAY \div 2),
       !.elapsed = IF app.elapsed + SCROLL_LOAD_DELAY \div 2 > SCROLL_LOAD_DELAY
                     THEN SCROLL_LOAD_DELAY ELSE app.elapsed + SCROLL_LOAD_DELAY \div 2,
       !.last = "tick"]

\* the wheel timer's callback: () => { this.loadTiles(); }
LoadTilesTimer ==
  /\ app.pc = "run"
  /\ \E t \in app.timers :
       /\ t.run = "loadTiles" /\ t.remaining = 0
       /\ app' = [loadTiles(Taken(app, t)) EXCEPT
            !.burstLoads = app.burstLoads + 1, !.last = "loadTiles"]

\* the callback of timeoutLoadFeatures: loadFeatures(), whose loadFeaturesDB
\* starts loading the dataset files of the tiles not loaded before
LoadFeaturesTimer ==
  /\ app.pc = "run"
  /\ \E t \in app.timers :
       /\ t.run = "loadFeatures" /\ t.remaining = 0
       /\ \E files \in 0 .. MaxLoading - app.loading :
            app' = [Taken(app, t) EXCEPT
              !.loading = app.loading + files, !.wanted = FALSE, !.last = "loadFeatures"]

\* the callback of timeoutLoadNewFeatures: runNewFeatures()
RunNewFeaturesTimer ==
  /\ app.pc = "run"
  /\ \E t \in app.timers :
       /\ t.run = "runNewFeatures" /\ t.remaining = 0
       /\ app' = [Taken(app, t) EXCEPT !.last = "runNewFeatures"]

\* a dataset file has been loaded: loadFromJSON's doneCallback, which calls
\* timeoutLoadNewFeatures
LoadDone ==
  /\ app.pc = "run"
  /\ app.loading > 0
  /\ app' = [timeoutLoadNewFeatures(app) EXCEPT
       !.loading = app.loading - 1, !.last = "loadDone"]

(***************************************************************************)
(* FeatureDatabase.featuresInView (index.ts) and Viewport.neededTiles      *)
(* (util.ts).  The database is the set of the features stored; a query by  *)
(* tile returns a new array, in the order of the ids.  oldFeatures.hasTile *)
(* returns the array oldFeatures holds, which bulkAddFeature stores in the *)
(* result as it is: until the call returns, the list of the result under   *)
(* that tile and the list of oldFeatures are one array.                    *)
(***************************************************************************)
neededTilesAt(t0, t1) ==
  <<<<Floor(t0[1]), Floor(t0[2])>>, <<Ceil(t1[1]), Ceil(t1[2])>>>>

neededTiles(v, z) ==
  neededTilesAt(atZoom(TileCoordinate(0, v.x0, v.y0), z),
                atZoom(TileCoordinate(0, v.x1, v.y1), z))

\* encodeTile(z, x, y) in the order of the loops over x and y, ny the number
\* of values of y
tilesOfZoom(z, range, ny) ==
  [k \in 1 .. (range[2][1] - range[1][1] + 1) * ny |->
     encodeTile(z, range[1][1] + ((k - 1) \div ny), range[1][2] + ((k - 1) % ny))]

\* this.features.where("tile").equals(tile).toArray()
query(db, tile) == SelectSeq(db, LAMBDA f : f.tile = tile)

\* the loop body when oldFeatures.hasTile(tile) is an array; sets is
\* [res, old], the result so far and oldFeatures.  When the result holds the
\* tile already, the array it holds is that of oldFeatures, which the push
\* of bulkAddFeature makes longer
inViewOld(sets, tile, viewBB) ==
  [res |-> bulkAddFeature(sets.res, sets.old.features[tile], tile, viewBB,
                          tile \in DOMAIN sets.res.features),
   old |-> IF tile \in DOMAIN sets.res.features
             THEN [sets.old EXCEPT !.features[tile] = @ \o @]
             ELSE sets.old]

\* the loop body when oldFeatures.hasTile(tile) is null
inViewQueried(sets, tile, viewBB, db) ==
  [res |-> bulkAddFeature(sets.res, query(db, tile), tile, viewBB, FALSE),
   old |-> sets.old]

\* the loops over x and y, from the k-th tile of the zoom on
RECURSIVE inViewTiles(_, _, _, _, _)
inViewTiles(order, k, viewBB, db, sets) ==
  IF k > Len(order) THEN sets
  ELSE IF order[k] \in DOMAIN sets.old.features
    THEN inViewTiles(order, k + 1, viewBB, db, inViewOld(sets, order[k], viewBB))
  ELSE inViewTiles(order, k + 1, viewBB, db, inViewQueried(sets, order[k], viewBB, db))

\* the loop over z, from zoom z down
RECURSIVE inViewFrom(_, _, _, _, _)
inViewFrom(v, z, viewBB, db, sets) ==
  IF z < 0 THEN sets
  ELSE inViewFrom(v, z - 1, viewBB, db,
         inViewTiles(tilesOfZoom(z, neededTiles(v, z),
                                 neededTiles(v, z)[2][2] - neededTiles(v, z)[1][2] + 1),
                     1, viewBB, db, sets))

\* featuresInView(view, oldFeatures): the result and oldFeatures after it
featuresInView(v, viewBB, db, oldFeatures) ==
  inViewFrom(v, MAX_ZOOM_ENCODE, viewBB, db, [res |-> FeatureEntrySet, old |-> oldFeatures])

\* toLonLat within MaxViewHalf half tiles of zoom 15 of the centre of the
\* world, in units of 360 / 2^16 degrees: the longitude is (x - 0.5) * 360,
\* and so is the latitude in 0.5 - y there, to 1e-12
lonLatNearCentre(x, y) ==
  << Floor(RMul(RSub(x, Rat(1, 2)), RInt(Pow2(MAX_ZOOM)))),
     Floor(RMul(RSub(Rat(1, 2), y), RInt(Pow2(MAX_ZOOM)))) >>

\* the viewBB of overlapsLonLatBoundBox
viewLonLatBox(v) == <<lonLatNearCentre(v.x0, v.y1), lonLatNearCentre(v.x1, v.y0)>>

\* the trails stored, by id: one across the centre of the world (its tile is
\* the root), one of the top-left quarter that ends at the centre, and one
\* inside the tile of zoom 15 below and right of the centre
InViewSamples ==
  << [id |-> 1, type |-> "trail", tile |-> encodeTile(0, 0, 0),
      boundBox |-> <<<<-3, -3>>, <<3, 3>>>>],
     [id |-> 2, type |-> "trail", tile |-> encodeTile(1, 0, 0),
      boundBox |-> <<<<-9, 0>>, <<0, 9>>>>],
     [id |-> 3, type |-> "trail",
      tile |-> encodeTile(MAX_ZOOM_ENCODE, Pow2(MAX_ZOOM_ENCODE - 1), Pow2(MAX_ZOOM_ENCODE - 1)),
      boundBox |-> <<<<0, -2>>, <<2, 0>>>>] >>

InViewDatabases ==
  { SelectSeq(InViewSamples, LAMBDA f : f.id \in ids) : ids \in SUBSET (1 .. Len(InViewSamples)) }

\* viewports around the centre of the world, corners on the half-tile grid
\* of zoom 15
InViewViews ==
  { Viewport(RSub(Rat(1, 2), Rat(a, Pow2(MAX_ZOOM))), RSub(Rat(1, 2), Rat(b, Pow2(MAX_ZOOM))),
             RAdd(Rat(1, 2), Rat(c, Pow2(MAX_ZOOM))), RAdd(Rat(1, 2), Rat(d, Pow2(MAX_ZOOM)))) :
      a \in 0 .. MaxViewHalf, b \in 0 .. MaxViewHalf,
      c \in 0 .. MaxViewHalf, d \in 0 .. MaxViewHalf }

IdleInView == [pc |-> "idle"]

\* this.features = new FeatureEntrySet(); old and oldBefore are the
\* oldFeatures of the last call after and before it
InitInView ==
  \E db \in InViewDatabases :
    inView = [pc |-> "new", db |-> db, features |-> FeatureEntrySet,
              old |-> FeatureEntrySet, oldBefore |-> FeatureEntrySet,
              v |-> Viewport(RInt(0), RInt(0), RInt(1), RInt(1)), calls |-> 0]

\* the call made with oldFeatures on view v, and this.features = features
InViewCalled(v, oldFeatures, out) ==
  inView' = [inView EXCEPT !.pc = "done", !.features = out.res, !.old = out.old,
                           !.oldBefore = oldFeatures, !.v = v,
                           !.calls = inView.calls + 1]

\* loadFeatures: featuresInView(this.view, this.features)
LoadFeatures ==
  /\ inView.pc # "idle" /\ inView.calls < MaxCalls
  /\ \E v \in InViewViews :
       InViewCalled(v, inView.features,
                    featuresInView(v, viewLonLatBox(v), inView.db, inView.features))

\* runNewFeatures: featuresInView(this.view, new FeatureEntrySet())
RunNewFeatures ==
  /\ inView.pc # "idle" /\ inView.calls < MaxCalls
  /\ \E v \in InViewViews :
       InViewCalled(v, FeatureEntrySet,
                    featuresInView(v, viewLonLatBox(v), inView.db, FeatureEntrySet))

(***************************************************************************)
(* TileSet and TileSetBuffer (util.ts).  A tile set is                     *)
(* [zoom, x0, y0, x1, y1, img]; img gives, for each tile <<x, y>> of the    *)
(* range, the state of its image: "loading", "loaded" (onload has run, or  *)
(* the image was taken over from an old set) or "failed" (onerror has run: *)
(* the tile counts as loaded and the image has height 0).                  *)
(***************************************************************************)
tileLoaded(t, x, y) ==
  /\ ~(x - t.x0 < 0 \/ y - t.y0 < 0 \/ x >= t.x1 \/ y >= t.y1)
  /\ t.img[<<x, y>>] # "loading"

\* whether getTile(zoom, x, y) returns an image
getTile(t, z, x, y) ==
  /\ z = t.zoom
  /\ tileLoaded(t, x, y)
  /\ t.img[<<x, y>>] # "failed"

\* fullyLoaded once the corners of the range are known at this.zoom
fullyLoadedOver(t, t0, t1) ==
  \A x \in Floor(t0[1]) .. Ceil(t1[1]) - 1 : \A y \in Floor(t0[2]) .. Ceil(t1[2]) - 1 :
    tileLoaded(t, x, y)

fullyLoaded(t, z, range) ==
  fullyLoadedOver(t,
    atZoom(TileCoordinate(z, RInt(range[1][1]), RInt(range[1][2])), t.zoom),
    atZoom(TileCoordinate(z, RInt(range[2][1]), RInt(range[2][2])), t.zoom))

\* new TileSet(zoom, range, old, url, onloadCallback)
TileSet(z, range, old) ==
  [zoom |-> z, x0 |-> range[1][1], y0 |-> range[1][2],
   x1 |-> range[2][1], y1 |-> range[2][2],
   img |-> [p \in (range[1][1] .. range[2][1] - 1) \X (range[1][2] .. range[2][2] - 1) |->
              IF \E k \in 1 .. Len(old) : getTile(old[k], z, p[1], p[2])
                THEN "loaded" ELSE "loading"]]

\* TileSet.empty()
EmptyTileSet == TileSet(0, <<<<0, 0>>, <<0, 0>>>>, <<>>)

\* the first loop of loadNew, from index i on (0-based)
RECURSIVE removeBehind(_, _, _, _)
removeBehind(sets, i, z, range) ==
  IF i >= Len(sets) THEN sets
  ELSE IF fullyLoaded(sets[i + 1], z, range)
    THEN removeBehind(SubSeq(sets, 1, i + 1), i + 1, z, range)
  ELSE removeBehind(sets, i + 1, z, range)

\* if(this.tiles.length > 4) this.tiles.splice(4, this.tiles.length - 4)
limitOld(sets) == IF Len(sets) > 4 THEN SubSeq(sets, 1, 4) ELSE sets

\* this.tiles.unshift(new TileSet(zoom, range, this.tiles.filter(...)))
unshiftNew(sets, z, range) ==
  <<TileSet(z, range, SelectSeq(sets, LAMBDA t : t.zoom = z))>> \o sets

loadNewRange(sets, z, range) == unshiftNew(limitOld(removeBehind(sets, 0, z, range)), z, range)

\* loadNew(view, zoom): this.tiles after the call
loadNew(sets, v, z) == loadNewRange(sets, z, neededTiles(v, z))

\* the views: two neighbouring sixteenths of the world, over one tile at
\* zoom 1 and over two tiles at zoom 2
BufferViews ==
  { Viewport(Rat(a, 4), Rat(b, 4), Rat(a + 1, 4), Rat(b + 1, 4)) : a \in 0 .. 1, b \in 0 .. 0 }

\* the zooms getZoom() gives
BufferZooms == {1, 2}

IdleBuffer == [pc |-> "idle"]

\* new TileSetBuffer(url, loadCallback).  before is this.tiles before the
\* last loadNew call, zoom and range the zoom of that call and the tiles its
\* view needs.
InitBuffer ==
  buffer = [pc |-> "new", tiles |-> <<EmptyTileSet>>, before |-> <<>>,
            range |-> <<<<0, 0>>, <<0, 0>>>>, zoom |-> 0, calls |-> 0,
            images |-> 0]

\* tiles.loadNew(this.view, zoom)
LoadNew ==
  /\ buffer.pc # "idle" /\ buffer.calls < MaxLoads
  /\ \E v \in BufferViews, z \in BufferZooms :
       buffer' = [pc |-> "loadNew", tiles |-> loadNew(buffer.tiles, v, z),
                  before |-> buffer.tiles, range |-> neededTiles(v, z), zoom |-> z,
                  calls |-> buffer.calls + 1, images |-> buffer.images]

\* an image of set i gets the state given
ImageEvent(i, p, state) ==
  /\ buffer.tiles[i].img[p] = "loading"
  /\ buffer.images < MaxImages
  /\ buffer' = [buffer EXCEPT !.pc = "image", !.tiles[i].img[p] = state,
                              !.images = buffer.images + 1]

\* newIm.onload
ImageLoads ==
  /\ buffer.pc # "idle"
  /\ \E i \in 1 .. Len(buffer.tiles) : \E p \in DOMAIN buffer.tiles[i].img :
       ImageEvent(i, p, "loaded")

\* newIm.onerror
ImageFails ==
  /\ buffer.pc # "idle"
  /\ \E i \in 1 .. Len(buffer.tiles) : \E p \in DOMAIN buffer.tiles[i].img :
       ImageEvent(i, p, "failed")

(***************************************************************************)
(* Specifications, one per component: the component's frame starts in its  *)
(* initial states and the other frames stay idle.                          *)
(***************************************************************************)
otherCodec == <<coord, line, tiles, route, boxes, view, cover, fset, near, onTrail, intersect, path, edit, app, inView, buffer>>
otherCoord == <<codec, line, tiles, route, boxes, view, cover, fset, near, onTrail, intersect, path, edit, app, inView, buffer>>
otherLine == <<codec, coord, tiles, route, boxes, view, cover, fset, near, onTrail, intersect, path, edit, app, inView, buffer>>
otherTiles == <<codec, coord, line, route, boxes, view, cover, fset, near, onTrail, intersect, path, edit, app, inView, buffer>>
otherRoute == <<codec, coord, line, tiles, boxes, view, cover, fset, near, onTrail, intersect, path, edit, app, inView, buffer>>
otherBoxes == <<codec, coord, line, tiles, route, view, cover, fset, near, onTrail, intersect, path, edit, app, inView, buffer>>
otherCover == <<codec, coord, line, tiles, route, boxes, view, fset, near, onTrail, intersect, path, edit, app, inView, buffer>>
otherSet == <<codec, coord, line, tiles, route, boxes, view, cover, near, onTrail, intersect, path, edit, app, inView, buffer>>
otherNear == <<codec, coord, line, tiles, route, boxes, view, cover, fset, onTrail, intersect, path, edit, app, inView, buffer>>
otherView == <<codec, coord, line, tiles, route, boxes, cover, fset, near, onTrail, intersect, path, edit, app, inView, buffer>>
otherOnTrail == <<codec, coord, line, tiles, route, boxes, view, cover, fset, near, intersect, path, edit, app, inView, buffer>>
otherIntersect == <<codec, coord, line, tiles, route, boxes, view, cover, fset, near, onTrail, path, edit, app, inView, buffer>>
otherPath == <<codec, coord, line, tiles, route, boxes, view, cover, fset, near, onTrail, intersect, edit, app, inView, buffer>>
otherEdit == <<codec, coord, line, tiles, route, boxes, view, cover, fset, near, onTrail, intersect, path, app, inView, buffer>>
otherApp == <<codec, coord, line, tiles, route, boxes, view, cover, fset, near, onTrail, intersect, path, edit, inView, buffer>>
otherInView == <<codec, coord, line, tiles, route, boxes, view, cover, fset, near, onTrail, intersect, path, edit, app, buffer>>
otherBuffer == <<codec, coord, line, tiles, route, boxes, view, cover, fset, near, onTrail, intersect, path, edit, app, inView>>

StartCodec ==
  /\ InitCodec
  /\ coord = IdleCoord /\ line = IdleLine /\ tiles = IdleTiles
  /\ route = IdleRoute /\ boxes = IdleBoxes /\ view = IdleView
  /\ cover = IdleCover
  /\ fset = IdleSet
  /\ near = IdleNear
  /\ onTrail = IdleOnTrail
  /\ intersect = IdleIntersect
  /\ path = IdlePath
  /\ edit = IdleEdit
  /\ app = IdleApp
  /\ inView = IdleInView
  /\ buffer = IdleBuffer

NextCodec ==
  \/ Encode /\ UNCHANGED otherCodec
  \/ Decode /\ UNCHANGED otherCodec

SpecCodec == StartCodec /\ [][NextCodec]_vars

StartCoord ==
  /\ InitCoord
  /\ codec = IdleCodec /\ line = IdleLine /\ tiles = IdleTiles
  /\ route = IdleRoute /\ boxes = IdleBoxes /\ view = IdleView
  /\ cover = IdleCover
  /\ fset = IdleSet
  /\ near = IdleNear
  /\ onTrail = IdleOnTrail
  /\ intersect = IdleIntersect
  /\ path = IdlePath
  /\ edit = IdleEdit
  /\ app = IdleApp
  /\ inView = IdleInView
  /\ buffer = IdleBuffer

NextCoord ==
  \/ Construct /\ UNCHANGED otherCoord
  \/ ConstructThrows /\ UNCHANGED otherCoord
  \/ AtZoom /\ UNCHANGED otherCoord

SpecCoord == StartCoord /\ [][NextCoord]_vars

StartLine ==
  /\ InitLine
  /\ codec = IdleCodec /\ coord = IdleCoord /\ tiles = IdleTiles
  /\ route = IdleRoute /\ boxes = IdleBoxes /\ view = IdleView
  /\ cover = IdleCover
  /\ fset = IdleSet
  /\ near = IdleNear
  /\ onTrail = IdleOnTrail
  /\ intersect = IdleIntersect
  /\ path = IdlePath
  /\ edit = IdleEdit
  /\ app = IdleApp
  /\ inView = IdleInView
  /\ buffer = IdleBuffer

NextLine ==
  \/ LineSwap /\ UNCHANGED otherLine
  \/ LineEnter /\ UNCHANGED otherLine
  \/ LineStep /\ UNCHANGED otherLine
  \/ LineReturn /\ UNCHANGED otherLine

SpecLine == StartLine /\ [][NextLine]_vars

StartContains ==
  /\ InitContains
  /\ codec = IdleCodec /\ coord = IdleCoord /\ line = IdleLine
  /\ route = IdleRoute /\ boxes = IdleBoxes /\ view = IdleView
  /\ cover = IdleCover
  /\ fset = IdleSet
  /\ near = IdleNear
  /\ onTrail = IdleOnTrail
  /\ intersect = IdleIntersect
  /\ path = IdlePath
  /\ edit = IdleEdit
  /\ app = IdleApp
  /\ inView = IdleInView
  /\ buffer = IdleBuffer

NextContains ==
  \/ Contains /\ UNCHANGED otherTiles

SpecContains == StartContains /\ [][NextContains]_vars

StartJoin ==
  /\ InitJoin
  /\ codec = IdleCodec /\ coord = IdleCoord /\ line = IdleLine
  /\ route = IdleRoute /\ boxes = IdleBoxes /\ view = IdleView
  /\ cover = IdleCover
  /\ fset = IdleSet
  /\ near = IdleNear
  /\ onTrail = IdleOnTrail
  /\ intersect = IdleIntersect
  /\ path = IdlePath
  /\ edit = IdleEdit
  /\ app = IdleApp
  /\ inView = IdleInView
  /\ buffer = IdleBuffer

NextJoin ==
  \/ Containing /\ UNCHANGED otherTiles

SpecJoin == StartJoin /\ [][NextJoin]_vars

StartRoute ==
  /\ InitRoute
  /\ codec = IdleCodec /\ coord = IdleCoord /\ line = IdleLine
  /\ tiles = IdleTiles /\ boxes = IdleBoxes /\ view = IdleView
  /\ cover = IdleCover
  /\ fset = IdleSet
  /\ near = IdleNear
  /\ onTrail = IdleOnTrail
  /\ intersect = IdleIntersect
  /\ path = IdlePath
  /\ edit = IdleEdit
  /\ app = IdleApp
  /\ inView = IdleInView
  /\ buffer = IdleBuffer

NextRoute ==
  \/ RouteEmpty /\ UNCHANGED otherRoute
  \/ RouteSingle /\ UNCHANGED otherRoute
  \/ RouteSegment /\ UNCHANGED otherRoute
  \/ RouteSegmentHangs /\ UNCHANGED otherRoute
  \/ RouteReturn /\ UNCHANGED otherRoute

SpecRoute == StartRoute /\ [][NextRoute]_vars

StartBoxes ==
  /\ InitBoxes
  /\ codec = IdleCodec /\ coord = IdleCoord /\ line = IdleLine
  /\ tiles = IdleTiles /\ route = IdleRoute /\ view = IdleView
  /\ cover = IdleCover
  /\ fset = IdleSet
  /\ near = IdleNear
  /\ onTrail = IdleOnTrail
  /\ intersect = IdleIntersect
  /\ path = IdlePath
  /\ edit = IdleEdit
  /\ app = IdleApp
  /\ inView = IdleInView
  /\ buffer = IdleBuffer

NextBoxes ==
  \/ Overlap /\ UNCHANGED otherBoxes
  \/ OverlapReversed /\ UNCHANGED otherBoxes

SpecBoxes == StartBoxes /\ [][NextBoxes]_vars

StartView ==
  /\ InitView
  /\ codec = IdleCodec /\ coord = IdleCoord /\ line = IdleLine
  /\ tiles = IdleTiles /\ route = IdleRoute /\ boxes = IdleBoxes
  /\ cover = IdleCover
  /\ fset = IdleSet
  /\ near = IdleNear
  /\ onTrail = IdleOnTrail
  /\ intersect = IdleIntersect
  /\ path = IdlePath
  /\ edit = IdleEdit
  /\ app = IdleApp
  /\ inView = IdleInView
  /\ buffer = IdleBuffer

NextView ==
  \/ Pan /\ UNCHANGED otherView
  \/ Zoom /\ UNCHANGED otherView
  \/ MatchAspect /\ UNCHANGED otherView

SpecView == StartView /\ [][NextView]_vars

StartCover ==
  /\ InitCover
  /\ codec = IdleCodec /\ coord = IdleCoord /\ line = IdleLine
  /\ tiles = IdleTiles /\ route = IdleRoute /\ boxes = IdleBoxes
  /\ view = IdleView
  /\ fset = IdleSet
  /\ near = IdleNear
  /\ onTrail = IdleOnTrail
  /\ intersect = IdleIntersect
  /\ path = IdlePath
  /\ edit = IdleEdit
  /\ app = IdleApp
  /\ inView = IdleInView
  /\ buffer = IdleBuffer

NextCover ==
  \/ Divide /\ UNCHANGED otherCover
  \/ LoadFeaturesDB /\ UNCHANGED otherCover

SpecCover == StartCover /\ [][NextCover]_vars

StartSet ==
  /\ InitSet
  /\ codec = IdleCodec /\ coord = IdleCoord /\ line = IdleLine
  /\ tiles = IdleTiles /\ route = IdleRoute /\ boxes = IdleBoxes
  /\ view = IdleView /\ cover = IdleCover
  /\ near = IdleNear
  /\ onTrail = IdleOnTrail
  /\ intersect = IdleIntersect
  /\ path = IdlePath
  /\ edit = IdleEdit
  /\ app = IdleApp
  /\ inView = IdleInView
  /\ buffer = IdleBuffer

NextSet ==
  \/ AddFeature /\ UNCHANGED otherSet
  \/ BulkAddFeature /\ UNCHANGED otherSet
  \/ BulkAddOwnList /\ UNCHANGED otherSet

SpecSet == StartSet /\ [][NextSet]_vars

StartNear ==
  /\ InitNear
  /\ codec = IdleCodec /\ coord = IdleCoord /\ line = IdleLine
  /\ tiles = IdleTiles /\ route = IdleRoute /\ boxes = IdleBoxes
  /\ view = IdleView /\ cover = IdleCover /\ fset = IdleSet
  /\ onTrail = IdleOnTrail
  /\ intersect = IdleIntersect
  /\ path = IdlePath
  /\ edit = IdleEdit
  /\ app = IdleApp
  /\ inView = IdleInView
  /\ buffer = IdleBuffer

NextNear ==
  \/ ClosestFeature /\ UNCHANGED otherNear
  \/ AddPoint /\ UNCHANGED otherNear
  \/ AddPointThrows /\ UNCHANGED otherNear

SpecNear == StartNear /\ [][NextNear]_vars

StartOnTrail ==
  /\ InitOnTrail
  /\ codec = IdleCodec
  /\ coord = IdleCoord
  /\ line = IdleLine
  /\ tiles = IdleTiles
  /\ route = IdleRoute
  /\ boxes = IdleBoxes
  /\ view = IdleView
  /\ cover = IdleCover
  /\ fset = IdleSet
  /\ near = IdleNear
  /\ intersect = IdleIntersect
  /\ path = IdlePath
  /\ edit = IdleEdit
  /\ app = IdleApp
  /\ inView = IdleInView
  /\ buffer = IdleBuffer

NextOnTrail ==
  \/ RouteOnTrail /\ UNCHANGED otherOnTrail

SpecOnTrail == StartOnTrail /\ [][NextOnTrail]_vars

StartIntersect ==
  /\ InitIntersect
  /\ codec = IdleCodec
  /\ coord = IdleCoord
  /\ line = IdleLine
  /\ tiles = IdleTiles
  /\ route = IdleRoute
  /\ boxes = IdleBoxes
  /\ view = IdleView
  /\ cover = IdleCover
  /\ fset = IdleSet
  /\ near = IdleNear
  /\ onTrail = IdleOnTrail
  /\ path = IdlePath
  /\ edit = IdleEdit
  /\ app = IdleApp
  /\ inView = IdleInView
  /\ buffer = IdleBuffer

NextIntersect ==
  \/ FindTrailIntersections /\ UNCHANGED otherIntersect

SpecIntersect == StartIntersect /\ [][NextIntersect]_vars

StartPath ==
  /\ InitPath
  /\ codec = IdleCodec
  /\ coord = IdleCoord
  /\ line = IdleLine
  /\ tiles = IdleTiles
  /\ route = IdleRoute
  /\ boxes = IdleBoxes
  /\ view = IdleView
  /\ cover = IdleCover
  /\ fset = IdleSet
  /\ near = IdleNear
  /\ onTrail = IdleOnTrail
  /\ intersect = IdleIntersect
  /\ edit = IdleEdit
  /\ app = IdleApp
  /\ inView = IdleInView
  /\ buffer = IdleBuffer

NextPath ==
  \/ AddPointFollow /\ UNCHANGED otherPath
  \/ AddPointRunning /\ UNCHANGED otherPath

SpecPath == StartPath /\ [][NextPath]_vars

StartEdit ==
  /\ InitEdit
  /\ codec = IdleCodec
  /\ coord = IdleCoord
  /\ line = IdleLine
  /\ tiles = IdleTiles
  /\ route = IdleRoute
  /\ boxes = IdleBoxes
  /\ view = IdleView
  /\ cover = IdleCover
  /\ fset = IdleSet
  /\ near = IdleNear
  /\ onTrail = IdleOnTrail
  /\ intersect = IdleIntersect
  /\ path = IdlePath
  /\ app = IdleApp
  /\ inView = IdleInView
  /\ buffer = IdleBuffer

NextEdit ==
  \/ AddPointReturns /\ UNCHANGED otherEdit
  \/ AddPointRaises /\ UNCHANGED otherEdit
  \/ AddPointHangs /\ UNCHANGED otherEdit
  \/ PopPoint /\ UNCHANGED otherEdit

SpecEdit == StartEdit /\ [][NextEdit]_vars

StartApp ==
  /\ InitApp
  /\ codec = IdleCodec
  /\ coord = IdleCoord
  /\ line = IdleLine
  /\ tiles = IdleTiles
  /\ route = IdleRoute
  /\ boxes = IdleBoxes
  /\ view = IdleView
  /\ cover = IdleCover
  /\ fset = IdleSet
  /\ near = IdleNear
  /\ onTrail = IdleOnTrail
  /\ intersect = IdleIntersect
  /\ path = IdlePath
  /\ edit = IdleEdit
  /\ inView = IdleInView
  /\ buffer = IdleBuffer

NextApp ==
  \/ Wheel /\ UNCHANGED otherApp
  \/ MouseMove /\ UNCHANGED otherApp
  \/ Tick /\ UNCHANGED otherApp
  \/ LoadTilesTimer /\ UNCHANGED otherApp
  \/ LoadFeaturesTimer /\ UNCHANGED otherApp
  \/ RunNewFeaturesTimer /\ UNCHANGED otherApp
  \/ LoadDone /\ UNCHANGED otherApp

SpecApp == StartApp /\ [][NextApp]_vars

\* time passes, the event loop runs the timers that are due, and a dataset
\* file that is loading gets loaded; the user may stop at any time
FairApp ==
  /\ WF_vars(Tick /\ UNCHANGED otherApp)
  /\ WF_vars(LoadTilesTimer /\ UNCHANGED otherApp)
  /\ WF_vars(LoadFeaturesTimer /\ UNCHANGED otherApp)
  /\ WF_vars(RunNewFeaturesTimer /\ UNCHANGED otherApp)
  /\ WF_vars(LoadDone /\ UNCHANGED otherApp)

SpecAppFair == SpecApp /\ FairApp

StartInView ==
  /\ InitInView
  /\ codec = IdleCodec
  /\ coord = IdleCoord
  /\ line = IdleLine
  /\ tiles = IdleTiles
  /\ route = IdleRoute
  /\ boxes = IdleBoxes
  /\ view = IdleView
  /\ cover = IdleCover
  /\ fset = IdleSet
  /\ near = IdleNear
  /\ onTrail = IdleOnTrail
  /\ intersect = IdleIntersect
  /\ path = IdlePath
  /\ edit = IdleEdit
  /\ app = IdleApp
  /\ buffer = IdleBuffer

NextInView ==
  \/ LoadFeatures /\ UNCHANGED otherInView
  \/ RunNewFeatures /\ UNCHANGED otherInView

SpecInView == StartInView /\ [][NextInView]_vars

StartBuffer ==
  /\ InitBuffer
  /\ codec = IdleCodec
  /\ coord = IdleCoord
  /\ line = IdleLine
  /\ tiles = IdleTiles
  /\ route = IdleRoute
  /\ boxes = IdleBoxes
  /\ view = IdleView
  /\ cover = IdleCover
  /\ fset = IdleSet
  /\ near = IdleNear
  /\ onTrail = IdleOnTrail
  /\ intersect = IdleIntersect
  /\ path = IdlePath
  /\ edit = IdleEdit
  /\ app = IdleApp
  /\ inView = IdleInView

NextBuffer ==
  \/ LoadNew /\ UNCHANGED otherBuffer
  \/ ImageLoads /\ UNCHANGED otherBuffer
  \/ ImageFails /\ UNCHANGED otherBuffer

SpecBuffer == StartBuffer /\ [][NextBuffer]_vars

\* the whole core: any one component at work
Init ==
  \/ StartCodec \/ StartCoord \/ StartLine \/ StartContains \/ StartJoin
  \/ StartRoute \/ StartBoxes \/ StartView \/ StartCover
  \/ StartSet \/ StartNear \/ StartOnTrail \/ StartIntersect \/ StartPath \/ StartEdit \/ StartApp \/ StartInView \/ StartBuffer

Next ==
  \/ NextCodec \/ NextCoord \/ NextLine \/ NextContains \/ NextJoin
  \/ NextRoute \/ NextBoxes \/ NextView \/ NextCover
  \/ NextSet \/ NextNear \/ NextOnTrail \/ NextIntersect \/ NextPath \/ NextEdit \/ NextApp \/ NextInView \/ NextBuffer

Spec == Init /\ [][Next]_vars

(***************************************************************************)
(* Properties.                                                             *)
(***************************************************************************)

\* C1: for every zoom z in 0 .. 15 and all x, y in 0 .. 2^z - 1, decoding the
\* packed id of (z, x, y) gives back exactly (z, x, y); this includes zoom 14
\* and 15, whose header sets the top bits and makes the id negative.
TileRoundTrip ==
  (codec.pc = "decoded" /\ codec.z <= MAX_ZOOM_ENCODE)
    => codec.out = <<codec.z, codec.x, codec.y>>

\* a zoom-15 tile with all coordinate bits set has made the round trip
TileRoundTripWitness ==
  /\ codec.pc = "decoded"
  /\ codec.z = MAX_ZOOM_ENCODE
  /\ codec.x = Pow2(MAX_ZOOM_ENCODE) - 1
  /\ codec.y = Pow2(MAX_ZOOM_ENCODE) - 1
  /\ codec.tile < 0

\* C2: encodeTile called with a zoom above 15 is rejected: it returns no
\* packed id (in particular none in which zoom or coordinates are truncated).
EncodeRejectsZoomAbove15 ==
  (codec.pc # "idle" /\ codec.z > MAX_ZOOM_ENCODE)
    => codec.pc \notin {"encoded", "decoded"}

TRange(p, q, lo, hi) ==
  LET d == RSub(q, p)
      tlo == RDiv(RSub(lo, p), d)
      thi == RDiv(RSub(hi, p), d)
  IN  IF d = RInt(0)
        THEN (IF RLe(lo, p) /\ RLe(p, hi) THEN <<RInt(-1), RInt(2)>> ELSE <<RInt(2), RInt(-1)>>)
        ELSE <<RMin(tlo, thi), RMax(tlo, thi)>>

\* the same for the open interval (lo, hi)
TRangeOpen(p, q, lo, hi) ==
  IF p = q
    THEN (IF RLt(lo, p) /\ RLt(p, hi) THEN <<RInt(-1), RInt(2)>> ELSE <<RInt(2), RInt(-1)>>)
    ELSE TRange(p, q, lo, hi)

\* the segment from p to q has a point in the closed cell [i, i+1] x [j, j+1]
TouchesCell(p, q, i, j) ==
  LET rx == TRange(p[1], q[1], RInt(i), RInt(i + 1))
      ry == TRange(p[2], q[2], RInt(j), RInt(j + 1))
  IN  RLe(RMax(RMax(rx[1], ry[1]), RInt(0)), RMin(RMin(rx[2], ry[2]), RInt(1)))

\* the segment from p to q has a point inside the open cell (i, i+1) x (j, j+1)
CrossesCell(p, q, i, j) ==
  LET rx == TRangeOpen(p[1], q[1], RInt(i), RInt(i + 1))
      ry == TRangeOpen(p[2], q[2], RInt(j), RInt(j + 1))
      lo == RMax(rx[1], ry[1])
      hi == RMin(rx[2], ry[2])
  IN  RLt(lo, hi) /\ RLt(lo, RInt(1)) /\ RLt(RInt(0), hi)

\* the point p lies in the closed cell of tile t (at t's zoom)
InClosedCell(p, t) ==
  /\ RLe(RInt(t[2]), p[1]) /\ RLe(p[1], RInt(t[2] + 1))
  /\ RLe(RInt(t[3]), p[2]) /\ RLe(p[2], RInt(t[3] + 1))

SeqSet(sq) == { sq[k] : k \in 1 .. Len(sq) }

\* the first call, getLineCrossedTiles(a, b, zoom), has returned line.out1
FirstCallReturned == line.pc # "idle" /\ (line.pass = 2 \/ line.pc = "done")

\* C4: getLineCrossedTiles(a, b, z) returns exactly the zoom-z cells the
\* segment from a to b passes through: every returned tile has zoom z and
\* is touched by the segment, every cell whose inside the segment crosses
\* is returned, each end point lies in a returned cell, no cell is
\* returned twice; and the segment (0.5,0.5)->(2.5,3.5) of zoom 4 gives
\* the six cells of the test at zoom 4 and the three at zoom 3.
LineCrossedExact ==
  FirstCallReturned =>
    LET p == atZoom(line.a, line.zoom)
        q == atZoom(line.b, line.zoom)
        out == line.out1
    IN  /\ \A t \in SeqSet(out) : t[1] = line.zoom /\ TouchesCell(p, q, t[2], t[3])
        /\ \A i \in 0 .. MaxHalfX, j \in 0 .. MaxHalfY :
             CrossesCell(p, q, i, j) => <<line.zoom, i, j>> \in SeqSet(out)
        /\ \E t \in SeqSet(out) : InClosedCell(p, t)
        /\ \E t \in SeqSet(out) : InClosedCell(q, t)
        /\ Cardinality(SeqSet(out)) = Len(out)
        /\ (/\ line.a = TileCoordinate(LineZoom, Rat(1, 2), Rat(1, 2))
            /\ line.b = TileCoordinate(LineZoom, Rat(5, 2), Rat(7, 2)))
           => SeqSet(out) =
                IF line.zoom = LineZoom
                  THEN {<<4, 0, 0>>, <<4, 0, 1>>, <<4, 1, 1>>, <<4, 1, 2>>, <<4, 2, 2>>, <<4, 2, 3>>}
                  ELSE {<<3, 0, 0>>, <<3, 0, 1>>, <<3, 1, 1>>}

\* C5: the tiles of getLineCrossedTiles(a, b, z) and of
\* getLineCrossedTiles(b, a, z) are the same set, for all a, b and z.
LineDirectionIndependent ==
  line.pc = "done" => SeqSet(line.out1) = SeqSet(line.out2)

\* both calls have returned the six tiles of the test segment, given backwards
\* first (so that the first call swapped its end points)
LineDirectionWitness ==
  /\ line.pc = "done"
  /\ line.a = TileCoordinate(LineZoom, Rat(5, 2), Rat(7, 2))
  /\ line.b = TileCoordinate(LineZoom, Rat(1, 2), Rat(1, 2))
  /\ line.zoom = LineZoom
  /\ Len(line.out1) = 6
  /\ Len(line.out2) = 6

\* C6: for valid TileIds, tileContains(outer, inner) is true exactly when
\* inner.zoom >= outer.zoom and inner's ancestor at outer's zoom is outer
\* (inner.x >> (inner.zoom - outer.zoom) = outer.x, and likewise y); the
\* relation is reflexive and transitive.
TileContainsIsAncestor ==
  tiles.pc = "done" =>
    LET outer == tiles.outer
        inner == tiles.inner
    IN  /\ tiles.out =
             (/\ inner[1] >= outer[1]
              /\ inner[2] \div Pow2(inner[1] - outer[1]) = outer[2]
              /\ inner[3] \div Pow2(inner[1] - outer[1]) = outer[3])
        /\ tileContains(outer, outer)
        /\ \A t \in ValidTiles \cup DeepTiles :
             (tiles.out /\ tileContains(inner, t)) => tileContains(outer, t)

\* a zoom-1 tile has been found to contain a zoom-2 tile inside it
TileContainsWitness ==
  /\ tiles.pc = "done"
  /\ tiles.outer = <<1, 1, 0>>
  /\ tiles.inner = <<2, 3, 1>>
  /\ tiles.out

\* the four zoom-plus-one tiles inside tile t
ChildTiles(t) == { <<t[1] + 1, 2 * t[2] + i, 2 * t[3] + j>> : i \in {0, 1}, j \in {0, 1} }

\* the lists that hold the tiles of ts in another order
Reorderings(ts) ==
  { [k \in 1 .. Len(ts) |-> ts[f[k]]] :
      f \in { g \in [1 .. Len(ts) -> 1 .. Len(ts)] :
                \A i, j \in 1 .. Len(ts) : g[i] = g[j] => i = j } }

\* C7: for a non-empty list of valid TileIds tileContaining returns the
\* minimal enclosing tile: it contains every tile of the list, none of its
\* four children does, and every reordering of the list gives the same
\* tile; the empty list gives (0,0,0); and the three lists of the tests
\* give (2,1,2), (0,0,0) and (1,1,0).
TileContainingMinimal ==
  tiles.pc = "joined" =>
    LET ts == tiles.list
        out == tiles.out
    IN  /\ Len(ts) = 0 => out = <<0, 0, 0>>
        /\ Len(ts) > 0 =>
             /\ \A t \in SeqSet(ts) : tileContains(out, t)
             /\ \A c \in ChildTiles(out) : \E t \in SeqSet(ts) : ~tileContains(c, t)
             /\ \A r \in Reorderings(ts) : tileContaining(r) = out
        /\ ts = <<<<2, 1, 2>>, <<3, 2, 4>>>> => out = <<2, 1, 2>>
        /\ ts = <<<<3, 4, 2>>, <<3, 6, 1>>, <<2, 3, 1>>, <<3, 0, 7>>>> => out = <<0, 0, 0>>
        /\ ts = <<<<3, 4, 2>>, <<3, 6, 1>>, <<2, 3, 1>>>> => out = <<1, 1, 0>>

\* three tiles of the north-east quadrant have been joined into it
TileContainingWitness ==
  /\ tiles.pc = "joined"
  /\ tiles.list = <<<<3, 4, 2>>, <<3, 6, 1>>, <<2, 3, 1>>>>
  /\ tiles.out = <<1, 1, 0>>

\* the waypoint p (zoom-0 tile space) lies in the closed footprint of tile t
InFootprint(t, p) ==
  LET q == atZoom(fromLonLat(p), t[1])
  IN  /\ RLe(RInt(t[2]), q[1]) /\ RLe(q[1], RInt(t[2] + 1))
      /\ RLe(RInt(t[3]), q[2]) /\ RLe(q[2], RInt(t[3] + 1))

\* the waypoint p lies in tile t, each point of the plane counted to one cell
InCell(t, p) ==
  LET q == atZoom(fromLonLat(p), t[1])
  IN  Floor(q[1]) = t[2] /\ Floor(q[2]) = t[3]

\* C8: for every non-empty route tileContainingRoute returns a valid TileId
\* (zoom in 0..15, integer x and y with 0 <= x, y < 2^zoom) that is the
\* smallest tile enclosing every waypoint (and so every segment) of the
\* route, also for one waypoint and for equal consecutive waypoints.  A
\* waypoint on a tile edge is taken in the code's favour: the result has it
\* in its closed footprint, and a child is smaller only if it holds every
\* waypoint as a cell does.
RouteTileSmallestValid ==
  (route.pc = "done" /\ Len(route.pts) >= 1) =>
    LET out == route.out
        t == <<out[1], Floor(out[2]), Floor(out[3])>>
    IN  /\ out[1] \in 0 .. MAX_ZOOM_ENCODE
        /\ IsInt(out[2]) /\ IsInt(out[3])
        /\ t[2] >= 0 /\ t[2] < Pow2(t[1])
        /\ t[3] >= 0 /\ t[3] < Pow2(t[1])
        /\ \A k \in 1 .. Len(route.pts) : InFootprint(t, route.pts[k])
        /\ t[1] < MAX_ZOOM_ENCODE =>
             \A c \in ChildTiles(t) :
               \E k \in 1 .. Len(route.pts) : ~InCell(c, route.pts[k])

\* the point <<px, py>> lies in the closed box b
InBox(b, px, py) ==
  /\ b[1][1] <= px /\ px <= b[2][1]
  /\ b[1][2] <= py /\ py <= b[2][2]

\* C9: boundBoxOverlap is symmetric and inclusive: it is true exactly when
\* on both axes max_a >= min_b and max_b >= min_a, so that two boxes with
\* min <= max overlap exactly when they share a point, be it only on an
\* edge or a corner, and boxes separated on either axis do not overlap.
BoundBoxOverlapSymmetricInclusive ==
  boxes.pc = "done" =>
    LET a == boxes.a
        b == boxes.b
    IN  /\ boxes.ab = boxes.ba
        /\ boxes.ab = (\A i \in {1, 2} : a[2][i] >= b[1][i] /\ b[2][i] >= a[1][i])
        /\ (\E i \in {1, 2} : a[2][i] < b[1][i] \/ b[2][i] < a[1][i]) => ~boxes.ab
        /\ (\A i \in {1, 2} : a[1][i] <= a[2][i] /\ b[1][i] <= b[2][i]) =>
             boxes.ab = (\E px \in 0 .. MaxBoxCoord, py \in 0 .. MaxBoxCoord :
                           InBox(a, px, py) /\ InBox(b, px, py))

\* two boxes that share only an edge have been found to overlap, both ways
BoundBoxOverlapWitness ==
  /\ boxes.pc = "done"
  /\ boxes.a = <<<<0, 0>>, <<1, 1>>>>
  /\ boxes.b = <<<<1, 0>>, <<2, 1>>>>
  /\ boxes.ab /\ boxes.ba

\* C10: starting from a Viewport with x0 < x1 and y0 < y1, after any
\* sequence of pan, zoom and matchAspect calls the viewport still has
\* x0 < x1 and y0 < y1: a call that would give a zero or negative span is
\* aborted and leaves no degenerate or inverted rectangle.
ViewportWellFormed ==
  view.op # "idle" => (RLt(view.v.x0, view.v.x1) /\ RLt(view.v.y0, view.v.y1))

TileInView(t, v) ==
  LET lo == atZoom(TileCoordinate(t[1], RInt(t[2]), RInt(t[3])), 0)
      hi == atZoom(TileCoordinate(t[1], RInt(t[2] + 1), RInt(t[3] + 1)), 0)
  IN  /\ RLe(lo[1], v.x1) /\ RLt(v.x0, hi[1])
      /\ RLe(lo[2], v.y1) /\ RLt(v.y0, hi[2])

\* C12: sharding loses no visible feature: for every viewport and every tile
\* T of zoom <= 15 whose footprint intersects the viewport, the shard tile
\* of T (T itself when its zoom is <= 9, else its zoom-9 ancestor) has
\* zoom <= 9, contains T, and its packed id is in coveredTiles(9).
ShardOfVisibleTileLoaded ==
  (cover.pc = "loaded" /\ TileInView(cover.tile, cover.v)) =>
    LET T == cover.tile
        S == decodeTile(cover.shard)
    IN  /\ S[1] <= MAX_ZOOM_DATA_SPLIT
        /\ T[1] <= MAX_ZOOM_DATA_SPLIT => S = T
        /\ T[1] > MAX_ZOOM_DATA_SPLIT =>
             S = <<MAX_ZOOM_DATA_SPLIT, T[2] \div Pow2(T[1] - MAX_ZOOM_DATA_SPLIT),
                                        T[3] \div Pow2(T[1] - MAX_ZOOM_DATA_SPLIT)>>
        /\ tileContains(S, T)
        /\ cover.shard \in cover.loaded

\* a zoom-10 tile at the right edge of a viewport that starts left of the world
\* has its zoom-9 shard among the loaded ones
ShardWitness ==
  /\ cover.pc = "loaded"
  /\ cover.tile = <<MAX_ZOOM_DATA_SPLIT + 1, 2, 1>>
  /\ cover.v.x0 = Rat(-1, 2 * Pow2(MAX_ZOOM_DATA_SPLIT))
  /\ cover.v.x1 = Rat(2, 2 * Pow2(MAX_ZOOM_DATA_SPLIT))
  /\ TileInView(cover.tile, cover.v)
  /\ cover.shard = encodeTile(MAX_ZOOM_DATA_SPLIT, 1, 0)
  /\ cover.shard \in cover.loaded

\* C13: after addFeature(f, view) or bulkAddFeature, every added f is in the
\* list under f.tile whether visible or not, f is in visibleFeatures
\* exactly when the view overlapped f.boundBox at this insertion (or f was
\* visible before), every other tile's list is unchanged, and every member
\* of visibleFeatures is registered under its tile.
AddedFeaturesRegistered ==
  fset.pc \in {"addFeature", "bulkAddFeature"} =>
    LET old == fset.before
        new == fset.s
    IN  /\ \A f \in SeqSet(fset.added) :
             /\ f.tile \in DOMAIN new.features
             /\ f \in SeqSet(new.features[f.tile])
             /\ f \in SeqSet(new.visibleFeatures) <=>
                  (\/ overlapsLonLatBoundBox(fset.viewBB, f.boundBox)
                   \/ f \in SeqSet(old.visibleFeatures))
        /\ SeqSet(new.visibleFeatures) \subseteq
             SeqSet(old.visibleFeatures) \cup SeqSet(fset.added)
        /\ DOMAIN new.features = DOMAIN old.features \cup {fset.tile}
        /\ \A t \in DOMAIN old.features :
             IF t = fset.tile
               THEN SubSeq(new.features[t], 1, Len(old.features[t])) = old.features[t]
               ELSE new.features[t] = old.features[t]
        /\ \A f \in SeqSet(new.visibleFeatures) :
             f.tile \in DOMAIN new.features /\ f \in SeqSet(new.features[f.tile])

\* a feature off the view has been added to a set that held a visible feature
\* of another tile: it is registered and not visible
AddedFeatureWitness ==
  /\ fset.pc = "addFeature"
  /\ fset.added[1].id = 2
  /\ fset.viewBB = <<<<0, 0>>, <<1, 1>>>>
  /\ Len(fset.before.visibleFeatures) = 1
  /\ fset.before.visibleFeatures[1].id = 3
  /\ Len(fset.s.visibleFeatures) = 1
  /\ fset.s.features[fset.added[1].tile] = fset.added

\* the visible trails closestFeature can return: another id than excludeId and
\* a route with a segment
EligibleTrails(visibleFeatures, excludeId) ==
  { f \in SeqSet(visibleFeatures) :
      f.type = "trail" /\ f.id # excludeId /\ Len(f.route) >= 2 }

\* the distances from point to the segments of a trail
SegmentDists(f, point) ==
  { distanceToLine(point, f.route[i], f.route[i + 1]) : i \in 1 .. Len(f.route) - 1 }

\* d is the least distance from point to a segment of f
IsTrailDist(f, point, d) ==
  /\ d \in SegmentDists(f, point)
  /\ \A e \in SegmentDists(f, point) : ~DistLt(e, d)

\* C14: closestFeature(point, excludeId) returns a visible trail other than
\* the excluded one together with its least point-to-segment distance, no
\* eligible trail is closer, it never returns a site or the excluded trail,
\* and with no eligible trail it returns no feature and the distance 1e100.
ClosestFeatureIsNearestTrail ==
  near.pc = "closest" =>
    LET E == EligibleTrails(near.visibleFeatures, near.excludeId)
        feature == near.out[1]
        d == near.out[2]
    IN  IF E = {} THEN feature = Undefined /\ d = Huge
        ELSE /\ feature \in E
             /\ feature.type = "trail" /\ feature.id # near.excludeId
             /\ IsTrailDist(feature, near.coord, d)
             /\ \A g \in E : \A e \in SegmentDists(g, near.coord) : ~DistLt(e, d)

\* the nearer trail is excluded: the other one is returned with its distance
ClosestFeatureWitness ==
  /\ near.pc = "closest"
  /\ near.coord = Pt(3, 1)
  /\ Len(near.visibleFeatures) = 2
  /\ near.visibleFeatures[1].id = 1 /\ near.visibleFeatures[2].id = 2
  /\ near.excludeId = 1
  /\ near.out[1].id = 2
  /\ near.out[2] = RInt(2)

\* C15: addPoint with followFeatures on the empty path appends one waypoint
\* and one route point, the same point: the nearest point of the nearest
\* visible trail when it is closer than distThreshold, else the coordinate
\* given.
FirstPointSnapped ==
  (near.pc = "added" /\ near.followFeatures) =>
    LET E == EligibleTrails(near.visibleFeatures, 0)
        thresh == RMul(near.distThreshold, near.distThreshold)
    IN  /\ Len(near.path.points) = 1 /\ Len(near.path.route) = 1
        /\ near.path.points[1].followFeatures
        /\ near.path.route[1] = near.path.points[1].coord
        /\ E # {}
        /\ \E g \in E : \E i \in 1 .. Len(g.route) - 1 :
             LET c == closestOnLine(near.coord, g.route[i], g.route[i + 1])
             IN  /\ \A h \in E : \A e \in SegmentDists(h, near.coord) : ~DistLt(e, c[2])
                 /\ near.path.route[1] = IF DistLt(c[2], thresh) THEN c[1] ELSE near.coord

\* a first point one unit off the inside of a trail's segment, closer than
\* the threshold 2: the waypoint is its projection on the segment
FirstPointWitness ==
  /\ near.pc = "added" /\ near.followFeatures
  /\ near.coord = Pt(3, 1)
  /\ near.distThreshold = RInt(2)
  /\ Len(near.visibleFeatures) = 1 /\ near.visibleFeatures[1].id = 1
  /\ near.path.route = <<Pt(3, 0)>>
  /\ near.path.points = <<[coord |-> Pt(3, 0), followFeatures |-> TRUE]>>

\* C16: addPoint with followFeatures never fails with an exception, whatever
\* the FeatureEntrySet: with no visible trail the coordinate given is
\* appended unsnapped.
AddPointNeverThrows == near.pc # "thrown"

\* C17: for two snapped points of a trail whose nearest waypoints are Vi and
\* Vj, i # j, routeOnTrail returns; the waypoints it emits have indices
\* within i .. j, strictly increasing when i < j and strictly decreasing when
\* i > j; no undefined point is emitted; and the snapped end point follows
\* when it differs from the last waypoint.
RouteOnTrailWithinRange ==
  (onTrail.pc = "called" /\ onTrail.startIndex # onTrail.endIndex) =>
    LET i == onTrail.startIndex
        j == onTrail.endIndex
        r == onTrail.start.trail.route
        pushed == onTrail.out.pushed
        n == Len(onTrail.out.pushed)
    IN  /\ onTrail.out.returned
        /\ n >= 1
        /\ \A k \in 1 .. n :
             IF i < j THEN i <= pushed[k] /\ pushed[k] <= j
                      ELSE j <= pushed[k] /\ pushed[k] <= i
        /\ \A k \in 1 .. n - 1 :
             IF i < j THEN pushed[k] < pushed[k + 1] ELSE pushed[k] > pushed[k + 1]
        /\ \A k \in 1 .. Len(onTrail.out.route) : onTrail.out.route[k] # NoPoint
        /\ onTrail.out.route =
             [k \in 1 .. n |-> r[pushed[k] + 1]]
               \o (IF r[pushed[n] + 1] = onTrail.end.pt THEN <<>> ELSE <<onTrail.end.pt>>)

\* the first and the last waypoint of a trail
Endpoints(f) == { f.route[1], f.route[Len(f.route)] }

\* the intersections recorded between the trails f and g at point p
RecordedAt(intersects, f, g, p) ==
  { k \in 1 .. Len(intersects) :
      /\ \/ intersects[k].trail0Id = f.id /\ intersects[k].trail1Id = g.id
         \/ intersects[k].trail0Id = g.id /\ intersects[k].trail1Id = f.id
      /\ DistBelow(dist(intersects[k].point, p), TRAIL_INTERSECTION_THRESH) }

\* no endpoint of f is within the threshold of g
EndpointsApart(f, g, visibleFeatures) ==
  \A p \in Endpoints(f) :
    \A d \in SegmentDists(g, p) : ~DistBelow(d, TRAIL_INTERSECTION_THRESH)

\* C18: findTrailIntersections records exactly one Intersection for two
\* visible trails that have endpoints within TRAIL_INTERSECTION_THRESH of
\* each other, whatever the order of the visit, and none between two trails
\* of which no endpoint is within the threshold of the other trail.
OneIntersectionPerJunction ==
  intersect.pc = "found" =>
    LET T == { f \in SeqSet(intersect.visibleFeatures) : f.type = "trail" }
    IN  \A f, g \in T :
          f.id # g.id =>
            /\ \A p \in Endpoints(f) : \A q \in Endpoints(g) :
                 DistBelow(dist(p, q), TRAIL_INTERSECTION_THRESH) =>
                   Cardinality(RecordedAt(intersect.out, f, g, p)) = 1
            /\ (EndpointsApart(f, g, intersect.visibleFeatures)
                  /\ EndpointsApart(g, f, intersect.visibleFeatures)) =>
                 \A k \in 1 .. Len(intersect.out) :
                   ~(\/ intersect.out[k].trail0Id = f.id /\ intersect.out[k].trail1Id = g.id
                     \/ intersect.out[k].trail0Id = g.id /\ intersect.out[k].trail1Id = f.id)

\* the intersections findTrailIntersections records between the trails of two
\* snapped points
JoinedBy(visibleFeatures, startPoint, endPoint) ==
  matchIntersect(findTrailIntersections(visibleFeatures),
                 startPoint.trail.id, endPoint.trail.id)

\* C19: for a point on a trail A and a point on another trail B, A and B
\* joined by one discovered intersection J, findRoute returns
\* routeOnTrail(A: start -> J) followed by routeOnTrail(B: J -> end) and
\* nothing else.
RouteThroughJunction ==
  (/\ path.pc = "added"
   /\ path.startPoint.trail.id # path.endPoint.trail.id
   /\ Len(JoinedBy(path.visibleFeatures, path.startPoint, path.endPoint)) = 1) =>
    LET J == JoinedBy(path.visibleFeatures, path.startPoint, path.endPoint)[1].point
    IN  /\ path.shortRoute.found
        /\ path.shortRoute.route =
             routeOnTrail(path.startPoint, [pt |-> J, trail |-> path.startPoint.trail]).route
               \o routeOnTrail([pt |-> J, trail |-> path.endPoint.trail], path.endPoint).route

\* from the first segment of one trail to the last segment of the next: the
\* route runs to the junction at <<8, 8>> and on from it
RouteThroughJunctionWitness ==
  /\ path.pc = "added"
  /\ path.visibleFeatures = <<ChainTrail(1), ChainTrail(2)>>
  /\ path.startPoint.pt = Pt(5, 4) /\ path.startPoint.trail.id = 1
  /\ path.endPoint.pt = Pt(12, 11) /\ path.endPoint.trail.id = 2
  /\ path.shortRoute.route = <<Pt(8, 4), Pt(8, 8), Pt(8, 8), Pt(12, 8), Pt(12, 11)>>

\* the trails one crossing of a discovered intersection away from the trails ids
Crossed(ids, intersects) ==
  ids \cup { intersects[k].trail1Id : k \in { j \in 1 .. Len(intersects) : intersects[j].trail0Id \in ids } }
      \cup { intersects[k].trail0Id : k \in { j \in 1 .. Len(intersects) : intersects[j].trail1Id \in ids } }

\* the trails within n crossings of the trails ids
RECURSIVE WithinCrossings(_, _, _)
WithinCrossings(ids, intersects, n) ==
  IF n = 0 THEN ids ELSE WithinCrossings(Crossed(ids, intersects), intersects, n - 1)

\* C20: a findRoute call that returns gives a route exactly when the trail
\* of the end point is within ROUTE_FINDING_DEPTH crossings of discovered
\* intersections of the trail of the start point, and the no-route sentinel
\* otherwise; no findRouteStep call is more than ROUTE_FINDING_DEPTH levels
\* down; and after the sentinel addPoint appends the end point only.
RouteFoundWithinDepth ==
  path.pc = "added" =>
    /\ path.shortRoute.found <=>
         path.endPoint.trail.id \in
           WithinCrossings({path.startPoint.trail.id},
                           findTrailIntersections(path.visibleFeatures), ROUTE_FINDING_DEPTH)
    /\ path.shortRoute.deepest >= 0
    /\ path.shortRoute.deepest <= ROUTE_FINDING_DEPTH
    /\ ~path.shortRoute.found =>
         /\ path.route = <<path.points[1].coord, path.endPoint.pt>>
         /\ path.points = <<[coord |-> path.points[1].coord, followFeatures |-> TRUE],
                            [coord |-> path.endPoint.pt, followFeatures |-> TRUE]>>

\* the end point is on the tenth trail of a chain, nine crossings from the
\* first: the search went down to depth 0 and the end point alone was added
RouteTooDeepWitness ==
  /\ path.pc = "added"
  /\ Len(path.visibleFeatures) = ROUTE_FINDING_DEPTH + 2
  /\ path.startPoint.trail.id = 1
  /\ path.endPoint.trail.id = ROUTE_FINDING_DEPTH + 2
  /\ ~path.shortRoute.found
  /\ path.shortRoute.deepest = 0
  /\ Len(path.route) = 2 /\ path.route[2] = path.endPoint.pt

\* the routes of all the chains of intersections from start to end that cross
\* at most depth intersections and leave a trail for good: each the
\* routeOnTrail pieces of its chain, one after the other
RECURSIVE ChainRoutes(_, _, _, _, _)
ChainRoutes(start, end, intersects, features, depth) ==
  IF start.trail.id = end.trail.id THEN { routeOnTrail(start, end).route }
  ELSE IF depth = 0 THEN {}
  ELSE UNION {
         { routeOnTrail(start, [pt |-> intersects[k].point, trail |-> start.trail]).route \o r :
             r \in ChainRoutes(
                     [pt |-> intersects[k].point,
                      trail |-> findTrail(features, nextTrailId(intersects[k], start.trail.id))],
                     end,
                     SelectSeq(intersects, LAMBDA i : ~(i.trail0Id = start.trail.id
                                                         \/ i.trail1Id = start.trail.id)),
                     features, depth - 1) } :
         k \in { j \in 1 .. Len(intersects) : \/ intersects[j].trail0Id = start.trail.id
                                               \/ intersects[j].trail1Id = start.trail.id } }

\* C21: when chains of intersections lead from the start trail to the target
\* trail within the depth bound, the route findRoute returns is the shortest:
\* no chain within the bound gives a route strictly shorter than it.
ReturnedRouteShortest ==
  (/\ path.pc = "added"
   /\ path.shortRoute.found
   /\ path.startPoint.trail.id # path.endPoint.trail.id) =>
    \A r \in ChainRoutes(path.startPoint, path.endPoint,
                         findTrailIntersections(path.visibleFeatures),
                         path.visibleFeatures, ROUTE_FINDING_DEPTH) :
      ~RLt(routeLengthMiles(r), routeLengthMiles(path.shortRoute.route))

\* the coordinates of waypoints i, i + 1, ... occur in that order in the
\* route from index j on
RECURSIVE OccurInOrder(_, _, _, _)
OccurInOrder(points, r, i, j) ==
  IF i > Len(points) THEN TRUE
  ELSE IF j > Len(r) THEN FALSE
  ELSE IF r[j] = points[i].coord THEN OccurInOrder(points, r, i + 1, j + 1)
  ELSE OccurInOrder(points, r, i, j + 1)

\* C22: popPoint removes and returns the last waypoint; with no waypoint left
\* the route is empty, otherwise the route is cut back to end in the new last
\* waypoint's coordinate, what comes before it unchanged.  On an empty path
\* popPoint returns no point and leaves points and route empty.
PopPointCutsBack ==
  edit.op = "pop" =>
    IF edit.before.points = <<>>
      THEN edit.pt = Undefined /\ edit.points = <<>> /\ edit.route = <<>>
      ELSE /\ edit.pt = edit.before.points[Len(edit.before.points)]
           /\ edit.points = SubSeq(edit.before.points, 1, Len(edit.before.points) - 1)
           /\ IF edit.points = <<>> THEN edit.route = <<>>
              ELSE /\ edit.route # <<>>
                   /\ edit.route[Len(edit.route)] = edit.points[Len(edit.points)].coord
                   /\ Len(edit.route) <= Len(edit.before.route)
                   /\ edit.route = SubSeq(edit.before.route, 1, Len(edit.route))

\* a pop that leaves a waypoint and takes points off the route
PopPointWitness ==
  /\ edit.op = "pop"
  /\ Len(edit.points) = 1
  /\ Len(edit.route) < Len(edit.before.route)

\* C23: after any addPoint and popPoint calls each addPoint has added one
\* waypoint, the route is empty exactly when there is no waypoint, the
\* waypoints' coordinates occur in the route in waypoint order, and the route
\* ends in the last waypoint's coordinate.
PathWellFormed ==
  /\ (edit.op = "add" /\ edit.pc = "ready") =>
       /\ Len(edit.points) = Len(edit.before.points) + 1
       /\ SubSeq(edit.points, 1, Len(edit.before.points)) = edit.before.points
  /\ (edit.pc # "idle") =>
       /\ (edit.route = <<>>) <=> (edit.points = <<>>)
       /\ OccurInOrder(edit.points, edit.route, 1, 1)
       /\ edit.points # <<>> =>
            edit.route[Len(edit.route)] = edit.points[Len(edit.points)].coord

\* a popPoint on the new path, then a first point and a point reached along
\* the trails
PathWellFormedWitness ==
  /\ edit.pc = "ready" /\ edit.op = "add"
  /\ edit.calls = 3 /\ edit.pops = 1
  /\ Len(edit.points) = 2
  /\ Len(edit.route) > 2

\* C24: on a path reached by addPoint calls, an addPoint followed by
\* popPoint leaves the waypoints and the route as they were before the
\* addPoint.
PopUndoesAdd ==
  (edit.pc = "ready" /\ edit.op = "add" /\ edit.pops = 0) =>
    /\ popPoint([points |-> edit.points, route |-> edit.route]).points = edit.before.points
    /\ popPoint([points |-> edit.points, route |-> edit.route]).route = edit.before.route

\* C25: routeOnTrail returns for every start and end point snapped onto one
\* trail, and the waypoints it reads have indices within 0 .. n - 1, n the
\* number of waypoints of the trail.
RouteOnTrailReturnsInBounds ==
  onTrail.pc = "called" =>
    /\ onTrail.out.returned
    /\ \A k \in 1 .. Len(onTrail.out.pushed) :
         /\ 0 <= onTrail.out.pushed[k]
         /\ onTrail.out.pushed[k] <= Len(onTrail.start.trail.route) - 1

\* C26: getLineCrossedTiles terminates for every pair of coordinates and every
\* zoom: each iteration of while(x < x1) moves x forward.  (x and res are
\* all the loop changes and the next x depends on x alone, so an iteration
\* that leaves x where it is repeats for ever, and res grows with it.)
LineMarchAdvances ==
  (line.pc = "loop" /\ RLt(line.x, line.args[3])) =>
    RLt(line.x, NextX(line.args[1], line.args[3], line.x))

\* the pending wheel timers
WheelTimers == { t \in app.timers : t.run = "loadTiles" }

\* at most one wheel timer is pending, the one the last wheel event set, due
\* SCROLL_LOAD_DELAY after that event; since the last wheel event loadTiles
\* has run from the wheel timer once if no wheel timer is pending and not at
\* all if one is, and it ran no sooner than SCROLL_LOAD_DELAY after the event
WheelTimerState ==
  app.pc = "run" =>
    /\ Cardinality(WheelTimers) <= 1
    /\ \A t \in WheelTimers :
         /\ t.id = app.wheelCallbackId
         /\ t.remaining = SCROLL_LOAD_DELAY - app.elapsed
    /\ app.last = "wheel" =>
         WheelTimers = {[id |-> app.wheelCallbackId, run |-> "loadTiles",
                         remaining |-> SCROLL_LOAD_DELAY]}
    /\ app.burstLoads <= 1
    /\ IF app.burst = 0 THEN WheelTimers = {} /\ app.burstLoads = 0
       ELSE (WheelTimers = {}) <=> (app.burstLoads = 1)
    /\ app.burstLoads = 1 => app.elapsed = SCROLL_LOAD_DELAY

\* C27: wheel events debounce tile loading: at most one wheel timer is
\* pending at any time, every wheel event cancels the pending one and sets a
\* new one, and after a burst of wheel events loadTiles runs once from the
\* burst, SCROLL_LOAD_DELAY after its last event and not before.
WheelDebounced ==
  /\ []WheelTimerState
  /\ (app.pc = "run" /\ app.burst > 0 /\ app.burstLoads = 0) ~>
       (app.pc = "run" /\ app.burstLoads = 1)

\* loadTiles has run once after a burst of MaxEvents wheel events
WheelBurstWitness ==
  /\ app.pc = "run"
  /\ app.burst = MaxEvents
  /\ app.burstLoads = 1

\* C28: every viewport change that schedules a feature load (loadTiles ->
\* timeoutLoadFeatures) is followed in the end by a run of loadFeatures,
\* whatever dataset files finish loading in between.
FeatureLoadFollows ==
  (app.pc = "run" /\ app.wanted) ~> (app.pc = "run" /\ ~app.wanted)

\* whether no element of the sequence occurs in it twice
NoRepeats(s) == \A i \in 1 .. Len(s) : \A j \in 1 .. Len(s) : s[i] = s[j] => i = j

\* C29: after featuresInView(view, oldFeatures) every feature occurs at most
\* once in the result's visibleFeatures and at most once in the list under
\* its tile, and the lists oldFeatures holds are as they were before the
\* call.
FeaturesInViewOnce ==
  inView.pc = "done" =>
    /\ NoRepeats(inView.features.visibleFeatures)
    /\ \A t \in DOMAIN inView.features.features : NoRepeats(inView.features.features[t])
    /\ inView.old.features = inView.oldBefore.features

\* C30: after a loadNew call the buffer holds between 1 and 5 tile sets, the
\* new one first, and when a set of the buffer was fully loaded over the
\* requested range before the call, a set fully loaded over it is in the
\* buffer after the call.
LoadNewKeepsLoaded ==
  buffer.pc = "loadNew" =>
    /\ Len(buffer.tiles) >= 1 /\ Len(buffer.tiles) <= 5
    /\ buffer.tiles[1].zoom = buffer.zoom
    /\ <<<<buffer.tiles[1].x0, buffer.tiles[1].y0>>, <<buffer.tiles[1].x1, buffer.tiles[1].y1>>>>
         = buffer.range
    /\ SubSeq(buffer.tiles, 2, Len(buffer.tiles))
         = SubSeq(buffer.before, 1, Len(buffer.tiles) - 1)
    /\ (\E i \in 1 .. Len(buffer.before) :
          fullyLoaded(buffer.before[i], buffer.zoom, buffer.range))
       => \E j \in 1 .. Len(buffer.tiles) :
            fullyLoaded(buffer.tiles[j], buffer.zoom, buffer.range)

=============================================================================
